---------------------------- MODULE Spec2Model ----------------------------
(***************************************************************************)
(* A model of the asynchronous-execution primitives of this repository:   *)
(*   - the v1 owner/callback lifetime protocol (Canceller, Callback,      *)
(*     the atomic flag registry), src/src/canceller.hpp, callback.hpp,    *)
(*     async.cpp;                                                         *)
(*   - the Promise / Future shared state, src/src/async.hpp.              *)
(* Each component has its own specification over the module's variables;  *)
(* the variables of the other components stay at their initial values.    *)
(***************************************************************************)
EXTENDS Integers, Sequences, FiniteSets, TLC

(* ----------------------------- bounds ---------------------------------- *)
\* Canceller<N>: capacity of the flag registry (128 by default in the code)
N == 2
\* mem::Pool<S, Ss...>: number of size classes
NClasses == 2
\* PoolPtr / shared_ptr owners ever obtained from Make and MakeShared
MaxPtrs == 3
\* block_count of Pool(block_count) and Resize, and the length a class grows to
MaxBlocks == 3
\* copies of one shared_ptr alive at once
MaxShares == 2
\* number of Callback objects ever constructed (MakeCb or move construction)
MaxCb == 3
\* number of callables made with Wrap
MaxWrap == 1
\* nesting depth of running stored functions on the owner thread
MaxDepth == 2
\* number of tokens a Canceller ever holds (1 + calls of InvalidateCallbacks)
MaxTokens == 2
\* number of Future objects obtained from the promise with GetFuture
MaxFut == 2
\* the results a producer can pass to Finished are 1 .. MaxResult
MaxResult == 2
\* executor threads that run completion tasks concurrently
NThreads == 2
\* callbacks a synchronizer can be asked to track
MaxTracked == 2
\* invocations of one tracked callback
MaxInvoke == 2
\* Traits::MIN_SIZE and Traits::MAX_SIZE of the pool (2 and 5 by default)
MIN_SIZE == 1
MAX_SIZE == 2
\* threads the pool can create in all
MaxThreads == 3
\* client threads calling Execute, and calls to Execute in all
NClients == 2
MaxTasks == 2
\* tasks given to ExecuteIn / ExecuteAt, and the last reading of the clock
\* calls of Finished that are rejected
MaxErrors == 2
\* synchronizer objects alive at a time, and State objects allocated in all
\* Worker::Config::capacity, the threads calling Schedule / TrySchedule, and
\* the calls they make in all
Capacity == 2
NCallers == 2
MaxCalls == 4
\* calls of Track that are rejected
MaxTrackErrors == 1
\* width of the reference counter's word (the top bit is the master bit),
\* counters allocated in all, callback objects made in all, and invocations
\* of callbacks in all
RefCountBits == 3
\* registrations of callbacks in one flag slot after a CallbackId was issued
MaxReuse == 64
MaxCounters == 2
MaxOwnerCb == 2
MaxInvocations == 2
MaxHandles == 2
MaxStates == 2
MaxTimed == 2
MaxClock == 2

(* ------------------------ program constants ---------------------------- *)
MASK_ALIVE == 128
MASK_CANCELLED == 64
ID_LENGTH == 6
\* State::trackedCount while the synchronizer object is attached
ATTACHED == 10000
MASK_ID == (2 ^ ID_LENGTH) - 1
\* width of std::atomic<uint8_t>
ByteRange == 2 ^ 8

\* std::nullopt of a CallbackId, an empty AtomicFlagRef, an empty weak_ptr
NoId == -1
NoFlag == -1
NoToken == 0

VARIABLES
    m_activeFlags,   \* Canceller::m_activeFlags : [0..N-1 -> byte]
    m_lastUsedFlag,  \* Canceller::m_lastUsedFlag, as an index
    m_token,         \* Canceller::m_token : the token the owner holds
    owner,           \* "alive" | "spin" | "exited" | "dead" : ~Canceller's position
    nTokens,         \* tokens made so far by this Canceller
    cbs,             \* the Callback objects
    ids,             \* the caller's CallbackId variable of each MakeCb(f, &id)
    wraps,           \* the callables made by Wrap: their weak token
    stack,           \* owner thread: the running Invoke frames, innermost last
    t2,              \* a second thread's Invoke of a callback
    issued,          \* history: what MakeCb returned for each callback
    revoked          \* history: callbacks cancelled by id / by InvalidateCallbacks

cvars == <<m_activeFlags, m_lastUsedFlag, m_token, owner, nTokens, cbs, ids,
           wraps, stack, t2, issued, revoked>>

VARIABLES
    hasFuture,       \* SharedState::hasFuture
    active,          \* SharedState::active
    m_onFinished,    \* SharedState::m_onFinished: 0, or the future whose Then set it
    promise,         \* "user" | "task" | "dead": where the Promise object is
    futures,         \* the Future objects: "none" | "held" | "cancelled"
    queue,           \* the tasks the executor holds, oldest first
    exec,            \* the executor thread's position in a completion task
    log,             \* history: the calls of callbacks installed with Then
    submitted        \* history: tasks the promise handed to its executor

fvars == <<hasFuture, active, m_onFinished, promise, futures, queue, exec, log,
           submitted>>

VARIABLES
    op,              \* "none" | "and" | "or": the combinator applied to the two futures
    chActive,        \* SharedState::active of child i
    chHasFuture,     \* SharedState::hasFuture of child i
    chPromise,       \* the promise of child i: "user" | "task" (inside a producer
                     \* task) | "finished" | "died" (destroyed unfinished) |
                     \* "skipped" (its task was executed without running the body)
    cActive,         \* combinedState->active
    cHasFuture,      \* combinedState->hasFuture
    cCb,             \* whether Then installed a callback on the combined future
    cFuture,         \* "none" | "held" | "cancelled": the combined future
    kq,              \* the executor's queue of the children's tasks
    kpc,             \* what each executor thread is doing
    klog,            \* the invocations of the combined future's callback
    chCb,            \* per child: whether Then had installed a callback on the
                     \* child's future before the combinator was applied
    chCanceller,     \* per child: whether its future came with a canceller
    chCalls,         \* the invocations of the children's own callbacks
    cancelRuns       \* per child: how often its canceller ran

\* the children's own callbacks and cancellers
hvars == <<chCb, chCanceller, chCalls, cancelRuns>>

kvars == <<op, chActive, chHasFuture, chPromise, cActive, cHasFuture, cCb,
           cFuture, kq, kpc, klog, hvars>>

VARIABLES
    sKind,           \* "none" | "all" | "any": OnAllCompleted or OnAnyCompleted
    sObj,            \* per synchronizer object: "none" | "alive"
    m_state,         \* per synchronizer object: SynchronizerBase::m_state
    nStates,         \* number of State objects allocated so far
    stateAlive,      \* per State: whether it has not been deleted
    trackedCount,    \* per State: State::trackedCount
    firedCount,      \* per State: State::firedCount
    listenerCalls,   \* per State: how many times State::listener was called
    wstate,          \* per callback: "untracked" | "armed" (the wrapper holds
                     \* the state pointer) | "spent" (it holds nullptr)
    wref,            \* per callback: the State its wrapper was made with
    sRuns,           \* per callback: how many times it has been invoked
    syncErrors       \* number of std::runtime_error thrown by Track

svars == <<sKind, sObj, m_state, nStates, stateAlive, trackedCount, firedCount,
           listenerCalls, wstate, wref, sRuns, syncErrors>>

VARIABLES
    wk,              \* per thread: "none" | "spawned" (std::thread created, its
                     \* function not yet started) | "waiting" (in the dequeue) |
                     \* "busy" (inside InvokeGuarded) | "exited"; and its kind
    m_workerCount,   \* WorkerCtx::m_workerCount
    m_busyCount,     \* WorkerCtx::m_busyCount
    pq,              \* number of tasks in WorkerCtx::m_queue
    cl,              \* per client thread: its position in ExecuteTask and the
                     \* workerCount it has read
    executed,        \* number of ExecuteTask calls started
    ptask,           \* per task passed to Execute: [st, by, runs]: where it
                     \* is, the worker that took it, how often it was taken
    m_stopped,       \* WorkerCtx::m_stopped
    dtor,            \* ~WorkerPool: its position and its loop index i
    loglines,        \* number of calls of WorkerCtx::m_logger
    thrown           \* number of tasks that ended by throwing

\* what the tasks and the logger have done
tvars == <<loglines, thrown>>

VARIABLES
    now,             \* what the injected clock m_now() returns
    m_pending,       \* TimerCtx::m_pending: the (deadline, task) pairs
    ts,              \* RunTimer's local vector of due tasks
    tpc,             \* the timer thread: "sleep" | "run" | "exited"
    handed,          \* per timed task: how often it was added to the worker queue
    deadline         \* per timed task: the deadline it was scheduled with

\* the timer thread, its tasks and the clock
mvars == <<now, m_pending, ts, tpc, handed, deadline>>

pvars == <<wk, m_workerCount, m_busyCount, pq, cl, executed, ptask, m_stopped, dtor,
           tvars, mvars>>

VARIABLES
    asyncErrors      \* number of AsyncException thrown to callers of Finished

evars == <<asyncErrors>>

VARIABLES
    m_tasks,         \* Worker::m_tasks: how many entries are due, how many not yet
    caller,          \* per caller thread: idle, or blocked in Schedule's wait
    woken,           \* the callers unblocked from m_emptiedSignal's wait that
                     \* have not yet re-acquired the mutex
    m_thread,        \* Worker::m_thread: "waiting" | "running"
    tryResult,       \* per caller: what its last TrySchedule returned
    nCalls           \* calls of Schedule / TrySchedule made

\* the Worker (src/src/worker.cpp)
rvars == <<m_tasks, caller, woken, m_thread, tryResult, nCalls>>

VARIABLES
    lib,             \* the owner made: "v3" CallbackOwner | "v2" CallbackManager
    rcState,         \* per counter: RefCounter::m_state / Counter::m_refcount
    rcLife,          \* per counter: "unborn" | "live" | "deleted"
    rcDeletes,       \* per counter: how often `delete this` ran on it
    mgr,             \* the owner: its position, m_handle / m_counter, the
                     \* value its fetch_and returned, the counter New() made
    slot,            \* per callback object: its life, its token, the value its
                     \* fetch_sub returned, what its last invocation did
    nInvoked         \* invocations of callbacks made

\* the v3 CallbackOwner / v2 CallbackManager and their reference counters
qvars == <<lib, rcState, rcLife, rcDeletes, mgr, slot, nInvoked>>

VARIABLES
    reuse            \* one slot of m_activeFlags over many registrations: its
                     \* byte, a CallbackId issued for it, the registrations
                     \* since, and what the last call with that id did

\* one flag slot of a Canceller and one CallbackId of it
uvars == <<reuse>>

VARIABLES
    tasks,           \* per Callback object: whether a task made by Schedule holds
                     \* it: "none" | "queued" | "ran" | "gone"
    scheduled        \* history, per stored function: what Schedule did with it:
                     \* "no" | "submitted" | "dropped"

\* the tasks made by Schedule(executor, cb, args)
yvars == <<tasks, scheduled>>

VARIABLES
    pool,            \* "unmade" | "made": whether Pool(block_count) has run
    m_blocks,        \* per size class: the std::list<Block>, front first; a
                     \* block is [taken, objs]: its atomic_flag and the owners
                     \* whose object lives in its buffer
    pptr             \* per owner made by Make / MakeShared: [st, cls, refs]
memvars == <<pool, m_blocks, pptr>>

\* the variables of Worker, of the v2 / v3 callback components, of the
\* single flag slot, of the scheduled tasks and of mem::Pool
xvars == <<rvars, qvars, uvars, yvars, memvars>>
\* the variables of every other component
notX == <<cvars, fvars, kvars, svars, pvars, evars>>

\* the variables of the components other than Canceller and Promise/Future
ovars == <<kvars, svars, pvars, evars, xvars>>
\* the variables of the components other than the combinators
notK == <<cvars, fvars, svars, pvars, evars, xvars>>
\* the variables of the components other than the synchronizers
notS == <<cvars, fvars, kvars, pvars, evars, xvars>>
\* the variables of the components other than the workers of the pool
notP == <<cvars, fvars, kvars, svars, mvars, evars, xvars>>

vars == <<cvars, fvars, ovars>>

Cb == 1 .. MaxCb
Wr == 1 .. MaxWrap
Slots == 0 .. (N - 1)
\* the stored function of wrapped callable w is numbered after the callbacks'
WrapFn(w) == MaxCb + w

(* --------------------- AtomicFlagRef (async.cpp) ----------------------- *)
HasBit(b, mask) == (b \div mask) % 2 = 1
SetBit(b, mask) == IF HasBit(b, mask) THEN b ELSE b + mask
ClearBit(b, mask) == IF HasBit(b, mask) THEN b - mask ELSE b

IsAlive(b) == HasBit(b, MASK_ALIVE)
IsCancelled(b) == HasBit(b, MASK_CANCELLED)
GetId(b) == b % (MASK_ID + 1)

Activate(b) == ClearBit(SetBit((b + 1) % ByteRange, MASK_ALIVE), MASK_CANCELLED)

Deactivate(b) == ClearBit(b, MASK_ALIVE)

Cancel(b) == SetBit(b, MASK_CANCELLED)

MakeCallbackId(b, index) == (index * (2 ^ ID_LENGTH)) + GetId(b)
GetFlagIndex(callbackId) == callbackId \div (2 ^ ID_LENGTH)
GetOperationId(callbackId) == callbackId % (MASK_ID + 1)

\* a CancelCallback that does not compare ids
CancelFlagAny(b, callbackId) == Cancel(b)
\* CancelCallback: if (flag.GetId() == GetOperationId(*callbackId)) flag.Cancel()
CancelFlag(b, callbackId) ==
    IF GetId(b) = GetOperationId(callbackId) THEN Cancel(b) ELSE b
\* IsActive: flag.GetId() == GetOperationId(*callbackId) && flag.IsAlive() &&
\* !flag.IsCancelled()
FlagActive(b, callbackId) ==
    /\ GetId(b) = GetOperationId(callbackId)
    /\ IsAlive(b)
    /\ ~IsCancelled(b)

(* ------------------- std::shared_ptr<CancellerToken> ------------------- *)
Frames(tok) == {i \in DOMAIN stack : stack[i].token = tok}

\* m_token.use_count(): the owner's reference and every Invoke holding `t`
UseCount(tok) ==
    (IF m_token = tok THEN 1 ELSE 0)
    + Cardinality(Frames(tok))
    + (IF t2.pc # "idle" /\ t2.token = tok THEN 1 ELSE 0)

\* whether weak_ptr::lock() on a weak reference to tok gives a token
Lock(tok) == tok # NoToken /\ UseCount(tok) > 0

(* ------------------------------ Callback ------------------------------- *)
NoCallback == [st |-> "none", token |-> NoToken, fn |-> 0, flagRef |-> NoFlag]
Destroyed == [st |-> "gone", token |-> NoToken, fn |-> 0, flagRef |-> NoFlag]

Exists(c) == cbs[c].st = "live"

\* the values `!m_flagRef.IsEmpty() && m_flagRef.IsCancelled()` can have:
\* the registry is a member of the Canceller, so after ~Canceller the read is
\* of a destroyed object and may give anything
FlagCancelled(c) ==
    IF cbs[c].flagRef = NoFlag THEN {FALSE}
    ELSE IF owner = "dead" THEN BOOLEAN
    ELSE {IsCancelled(m_activeFlags[cbs[c].flagRef])}

\* Callback::Cancelled(): the values it can return
Cancelled(c) == IF Lock(cbs[c].token) THEN FlagCancelled(c) ELSE {TRUE}

\* Callback::Invoke: whether it can reach m_callback(args...)
Runs(c) ==
    /\ Exists(c)
    /\ cbs[c].fn # 0
    /\ Lock(cbs[c].token)
    /\ FALSE \in FlagCancelled(c)

\* the lambda of Wrap: whether it calls f
WrapRuns(w) == wraps[w] # NoToken /\ Lock(wraps[w])

\* an object whose stored function is running cannot be destroyed or moved from
InUse(c) ==
    \/ \E i \in DOMAIN stack : stack[i].cb = c
    \/ (t2.pc # "idle" /\ t2.cb = c)

\* Callback::Deactivate: the registry after it
\* Callback::Deactivate: whether it reaches m_flagRef.Deactivate()
DeactivateWrites(c) == cbs[c].flagRef # NoFlag /\ Lock(cbs[c].token)
\* the registry after Callback::Deactivate (a registry that no longer exists
\* has no state to change)
AfterDeactivate(c) ==
    IF DeactivateWrites(c) /\ owner # "dead"
    THEN [m_activeFlags EXCEPT ![cbs[c].flagRef] = Deactivate(@)]
    ELSE m_activeFlags

(* ================== Promise / Future (src/src/async.hpp) =============== *)
Fut == 1 .. MaxFut
Results == 1 .. MaxResult
\* std::nullopt as the argument of a callback
None == 0

FreshFut == {f \in Fut : futures[f] = "none" /\ \A g \in Fut : g < f => futures[g] # "none"}

DeliverTask(cb, val) == [kind |-> "deliver", cb |-> cb, val |-> val]
ProduceTask == [kind |-> "produce", cb |-> 0, val |-> None]

\* a completion task that does not capture r
FinishedTasksNoValue(r) ==
    IF hasFuture /\ m_onFinished # 0
    THEN <<DeliverTask(m_onFinished, None)>>
    ELSE <<>>
\* Promise::Finished(r): what it hands to m_executor
FinishedTasks(r) ==
    IF hasFuture /\ m_onFinished # 0
    THEN <<DeliverTask(m_onFinished, r)>>
    ELSE <<>>

\* a Terminate that would not look at `active`
TerminateTasksAlways ==
    IF hasFuture /\ m_onFinished # 0
    THEN <<DeliverTask(m_onFinished, None)>>
    ELSE <<>>
\* Promise::Terminate(): what it hands to m_executor
TerminateTasks ==
    IF active /\ hasFuture /\ m_onFinished # 0
    THEN <<DeliverTask(m_onFinished, None)>>
    ELSE <<>>

\* the completion task's `if (state->hasFuture) cb(r)`: the log after it
CallEntry(task) == [cb |-> task.cb, val |-> task.val, held |-> futures[task.cb] = "held"]
AfterThunk(task) == IF hasFuture THEN Append(log, CallEntry(task)) ELSE log

\* a future that would only look at its own state pointer
HoldsState(f) == futures[f] = "held"
\* Future::IsActive(): m_state && m_state->active
FutureIsActive(f) == futures[f] = "held" /\ active

\* Promise::GetFuture(): Future's constructor sets hasFuture
GetFuture(f) ==
    /\ promise = "user"
    /\ ~hasFuture
    /\ f \in FreshFut
    /\ hasFuture' = TRUE
    /\ futures' = [futures EXCEPT ![f] = "held"]
    /\ UNCHANGED cvars
    /\ UNCHANGED ovars
    /\ UNCHANGED <<active, m_onFinished, promise, queue, exec, log, submitted>>

\* Future::Then(cb): SetCallbackIfEmpty
Then(f) ==
    /\ futures[f] = "held"
    /\ m_onFinished = 0
    /\ m_onFinished' = f
    /\ UNCHANGED cvars
    /\ UNCHANGED ovars
    /\ UNCHANGED <<hasFuture, active, promise, futures, queue, exec, log, submitted>>

\* Future::Cancel() and ~Future()
FutureCancel(f) ==
    /\ futures[f] = "held"
    /\ hasFuture' = FALSE
    /\ futures' = [futures EXCEPT ![f] = "cancelled"]
    /\ UNCHANGED cvars
    /\ UNCHANGED ovars
    /\ UNCHANGED <<active, m_onFinished, promise, queue, exec, log, submitted>>

\* a Finished that would accept every call
FinishedRejectsNever == FALSE
\* Promise::Finished: `if (!m_state->active) throw AsyncException(...)`
FinishedRejects == ~active

\* Promise::Finished(r), called on a promise that was finished before: the
\* exception leaves before anything is written
FinishedThrows(r) ==
    /\ promise = "user"
    /\ FinishedRejects
    /\ asyncErrors < MaxTrackErrors
    /\ asyncErrors' = asyncErrors + 1
    /\ UNCHANGED <<cvars, fvars, kvars, svars, pvars, xvars>>

\* Promise::Finished(r), called on the promise the user holds
Finished(r) ==
    /\ promise = "user"
    /\ ~FinishedRejects
    /\ active' = FALSE
    /\ queue' = queue \o FinishedTasks(r)
    /\ submitted' = submitted + Len(FinishedTasks(r))
    /\ UNCHANGED cvars
    /\ UNCHANGED ovars
    /\ UNCHANGED <<hasFuture, m_onFinished, promise, futures, exec, log>>

\* EnqueueTask(EmbedPromiseIntoTask(std::move(promise), f))
Embed ==
    /\ promise = "user"
    /\ active
    /\ promise' = "task"
    /\ queue' = Append(queue, ProduceTask)
    /\ UNCHANGED cvars
    /\ UNCHANGED ovars
    /\ UNCHANGED <<hasFuture, active, m_onFinished, futures, exec, log, submitted>>

\* ~Promise() of the promise the user holds: Terminate()
DestroyPromise ==
    /\ promise = "user"
    /\ promise' = "dead"
    /\ active' = FALSE
    /\ queue' = queue \o TerminateTasks
    /\ submitted' = submitted + Len(TerminateTasks)
    /\ UNCHANGED cvars
    /\ UNCHANGED ovars
    /\ UNCHANGED <<hasFuture, m_onFinished, futures, exec, log>>

\* the executor runs a producer task (CopyableWrapper::operator()): Finished
\* (m_func()) unless the promise IsCancelled(); the task and its promise are
\* destroyed afterwards (Terminate finds nothing left to do unless cancelled)
RunProduce(r) ==
    /\ exec = "idle"
    /\ queue # <<>>
    /\ Head(queue).kind = "produce"
    /\ active' = FALSE
    /\ promise' = "dead"
    /\ IF hasFuture
       THEN /\ queue' = Tail(queue) \o FinishedTasks(r)
            /\ submitted' = submitted + Len(FinishedTasks(r))
       ELSE /\ queue' = Tail(queue)
            /\ UNCHANGED submitted
    /\ UNCHANGED cvars
    /\ UNCHANGED ovars
    /\ UNCHANGED <<hasFuture, m_onFinished, futures, exec, log>>

\* the executor runs a completion task, on the thread of everything else
RunDeliver ==
    /\ exec = "idle"
    /\ queue # <<>>
    /\ Head(queue).kind = "deliver"
    /\ log' = AfterThunk(Head(queue))
    /\ queue' = Tail(queue)
    /\ UNCHANGED cvars
    /\ UNCHANGED ovars
    /\ UNCHANGED <<hasFuture, active, m_onFinished, promise, futures, exec, submitted>>

\* a queued task is destroyed without having run (queue.clear()); a producer
\* task takes its promise with it: Terminate()
DropTask ==
    /\ exec = "idle"
    /\ queue # <<>>
    /\ IF Head(queue).kind = "produce"
       THEN /\ promise' = "dead"
            /\ active' = FALSE
            /\ queue' = Tail(queue) \o TerminateTasks
            /\ submitted' = submitted + Len(TerminateTasks)
       ELSE /\ queue' = Tail(queue)
            /\ UNCHANGED <<promise, active, submitted>>
    /\ UNCHANGED cvars
    /\ UNCHANGED ovars
    /\ UNCHANGED <<hasFuture, m_onFinished, futures, exec, log>>

(* ---------- the completion task on a thread of its own ----------------- *)
\* if (state->hasFuture)
ThunkCheck ==
    /\ exec = "idle"
    /\ queue # <<>>
    /\ Head(queue).kind = "deliver"
    /\ IF hasFuture
       THEN exec' = "checked" /\ UNCHANGED queue
       ELSE queue' = Tail(queue) /\ UNCHANGED exec
    /\ UNCHANGED cvars
    /\ UNCHANGED ovars
    /\ UNCHANGED <<hasFuture, active, m_onFinished, promise, futures, log, submitted>>

\* cb(r) is entered
ThunkCall ==
    /\ exec = "checked"
    /\ exec' = "running"
    /\ log' = Append(log, CallEntry(Head(queue)))
    /\ UNCHANGED cvars
    /\ UNCHANGED ovars
    /\ UNCHANGED <<hasFuture, active, m_onFinished, promise, futures, queue, submitted>>

\* cb(r) returns, the task is done
ThunkReturn ==
    /\ exec = "running"
    /\ exec' = "idle"
    /\ queue' = Tail(queue)
    /\ UNCHANGED cvars
    /\ UNCHANGED ovars
    /\ UNCHANGED <<hasFuture, active, m_onFinished, promise, futures, log, submitted>>

InitFuture ==
    /\ hasFuture = FALSE
    /\ active = TRUE
    /\ m_onFinished = 0
    /\ promise = "user"
    /\ futures = [f \in Fut |-> "none"]
    /\ queue = <<>>
    /\ exec = "idle"
    /\ log = <<>>
    /\ submitted = 0
    /\ asyncErrors = 0

(* ============ operator&& and operator|| (src/src/async.hpp) ============ *)
\* the two child futures of a combinator, each with a promise of its own
Child == 1 .. 2
Other(i) == 3 - i
Th == 1 .. NThreads

ChildDeliver(i, val) == [kind |-> "deliver", child |-> i, val |-> val]
ChildProduce(i) == [kind |-> "produce", child |-> i, val |-> "none"]
IdleThread == [st |-> "idle", child |-> 0, val |-> "none"]
AllIdle == \A t \in Th : kpc[t] = IdleThread

\* Future::IsActive() of the combined future
CombinedIsActive == cFuture = "held" /\ cActive
\* Promise::IsCancelled() of child i's promise
ChildIsCancelled(i) == ~chHasFuture[i]

\* a hook that would not look at the other child
HookCompletesAlways(i) == TRUE
\* the child hook reaches `combinedState->active = false`: in operator&& only
\* if the other child's state is inactive, in operator|| always
HookCompletes(i) == IF op = "and" THEN ~chActive[Other(i)] ELSE TRUE
\* a hook of operator|| that would leave the other child alone
HookCancelsNothing(i) == chHasFuture
\* `rhsState->hasFuture = false; // cancel rhs` of operator||'s hook
HookCancels(i) ==
    IF op = "or" THEN [chHasFuture EXCEPT ![Other(i)] = FALSE] ELSE chHasFuture
\* the hook calls the combined future's callback: onFinished(Empty{})
HookCalls(i) == HookCompletes(i) /\ cHasFuture /\ cCb

\* a completion task that would not re-check hasFuture
ThunkPassesAlways(i) == TRUE
\* the completion task's `if (state->hasFuture)` on child i's state
ThunkPasses(i) == chHasFuture[i]

\* a hook that would forward what the child delivered
HookValuePasses(val) == IF val = "none" THEN "None" ELSE "SomeEmpty"
\* onFinished(Empty{}): the argument of the combined future's callback is
\* made from Empty{} whatever the child delivered
HookValue(val) == "SomeEmpty"

\* the callback operator&& / operator|| sets on child i's state, run with
\* the task's value: `if (cb) cb(std::move(r))` calls the child's own callback
ChildHook(i, val) ==
    /\ chHasFuture' = HookCancels(i)
    /\ chCalls' = IF chCb[i] THEN Append(chCalls, [by |-> i, val |-> val])
                  ELSE chCalls
    /\ cActive' = IF HookCompletes(i) THEN FALSE ELSE cActive
    /\ klog' = IF HookCalls(i)
               THEN Append(klog, [by |-> i, val |-> HookValue(val)])
               ELSE klog

\* f = std::move(f1) && std::move(f2) or f1 || f2, with .Then(cb) if withCb
Combine(o, withCb) ==
    /\ op = "none"
    /\ op' = o
    /\ cActive' = (chActive[1] /\ chActive[2])
    /\ cHasFuture' = TRUE
    /\ cFuture' = "held"
    /\ cCb' = withCb
    /\ chCb' \in [Child -> BOOLEAN]
    /\ chCanceller' \in [Child -> BOOLEAN]
    /\ UNCHANGED notK
    /\ UNCHANGED <<chActive, chHasFuture, chPromise, kq, kpc, klog, chCalls,
                   cancelRuns>>

\* a combined canceller that would leave the children's states alone
CancellerKeeps == chHasFuture
\* lhsState->hasFuture = false; rhsState->hasFuture = false;
CancellerClears == [i \in Child |-> FALSE]

\* Cancel() or destruction of the combined future: hasFuture of the combined
\* state is cleared, then its m_canceller clears hasFuture of both children
\* and calls each child's canceller, if it has one
CombinedCancel ==
    /\ cFuture = "held"
    /\ cFuture' = "cancelled"
    /\ cHasFuture' = FALSE
    /\ chHasFuture' = CancellerClears
    /\ cancelRuns' = [i \in Child |-> IF chCanceller[i] THEN cancelRuns[i] + 1
                                     ELSE cancelRuns[i]]
    /\ UNCHANGED notK
    /\ UNCHANGED <<op, chActive, chPromise, cActive, cCb, kq, kpc, klog, chCb,
                   chCanceller, chCalls>>

\* EnqueueTask(EmbedPromiseIntoTask(std::move(p_i), body))
ChildEmbed(i) ==
    /\ chPromise[i] = "user"
    /\ chPromise' = [chPromise EXCEPT ![i] = "task"]
    /\ kq' = Append(kq, ChildProduce(i))
    /\ UNCHANGED notK
    /\ UNCHANGED <<op, chActive, chHasFuture, cActive, cHasFuture, cCb, cFuture, kpc, klog>>
    /\ UNCHANGED hvars

\* p_i.Finished(r): the child's callback is the combinator's hook
ChildFinished(i) ==
    /\ op # "none"
    /\ chPromise[i] = "user"
    /\ chActive[i]
    /\ chPromise' = [chPromise EXCEPT ![i] = "finished"]
    /\ chActive' = [chActive EXCEPT ![i] = FALSE]
    /\ kq' = IF chHasFuture[i] THEN Append(kq, ChildDeliver(i, "some")) ELSE kq
    /\ UNCHANGED notK
    /\ UNCHANGED <<op, chHasFuture, cActive, cHasFuture, cCb, cFuture, kpc, klog>>
    /\ UNCHANGED hvars

\* ~Promise() of child i's unfinished promise: Terminate()
ChildDestroy(i) ==
    /\ op # "none"
    /\ chPromise[i] = "user"
    /\ chActive[i]
    /\ chPromise' = [chPromise EXCEPT ![i] = "died"]
    /\ chActive' = [chActive EXCEPT ![i] = FALSE]
    /\ kq' = IF chHasFuture[i] THEN Append(kq, ChildDeliver(i, "none")) ELSE kq
    /\ UNCHANGED notK
    /\ UNCHANGED <<op, chHasFuture, cActive, cHasFuture, cCb, cFuture, kpc, klog>>
    /\ UNCHANGED hvars

\* the executor runs child i's producer task: the body runs and Finished is
\* called unless the promise IsCancelled(); the promise dies with the task
ChildRunProduce ==
    /\ op # "none"
    /\ AllIdle
    /\ kq # <<>>
    /\ Head(kq).kind = "produce"
    /\ LET i == Head(kq).child
       IN  /\ chActive' = [chActive EXCEPT ![i] = FALSE]
           /\ IF ChildIsCancelled(i)
              THEN /\ chPromise' = [chPromise EXCEPT ![i] = "skipped"]
                   /\ kq' = Tail(kq)
              ELSE /\ chPromise' = [chPromise EXCEPT ![i] = "finished"]
                   /\ kq' = Append(Tail(kq), ChildDeliver(i, "some"))
    /\ UNCHANGED notK
    /\ UNCHANGED <<op, chHasFuture, cActive, cHasFuture, cCb, cFuture, kpc, klog>>
    /\ UNCHANGED hvars

\* the executor runs a child's completion task on the thread of everything
\* else: `if (state->hasFuture) cb(r)`, cb being the hook
ChildRunDeliver ==
    /\ op # "none"
    /\ AllIdle
    /\ kq # <<>>
    /\ Head(kq).kind = "deliver"
    /\ kq' = Tail(kq)
    /\ IF ThunkPasses(Head(kq).child)
       THEN ChildHook(Head(kq).child, Head(kq).val)
       ELSE UNCHANGED <<chHasFuture, cActive, klog, chCalls>>
    /\ UNCHANGED notK
    /\ UNCHANGED <<op, chActive, chPromise, cHasFuture, cCb, cFuture, kpc, chCb,
                   chCanceller, cancelRuns>>

(* ------- completion tasks on several executor threads (pool workers) ---- *)
\* thread t takes the next completion task from the queue
WorkerTake(t) ==
    /\ kpc[t].st = "idle"
    /\ kq # <<>>
    /\ Head(kq).kind = "deliver"
    /\ kq' = Tail(kq)
    /\ kpc' = [kpc EXCEPT ![t] = [st |-> "taken", child |-> Head(kq).child,
                                  val |-> Head(kq).val]]
    /\ UNCHANGED notK
    /\ UNCHANGED <<op, chActive, chHasFuture, chPromise, cActive, cHasFuture, cCb,
                   cFuture, klog>>
    /\ UNCHANGED hvars

\* if (state->hasFuture)
WorkerCheck(t) ==
    /\ kpc[t].st = "taken"
    /\ kpc' = [kpc EXCEPT ![t] = IF ThunkPasses(kpc[t].child)
                                 THEN [kpc[t] EXCEPT !.st = "checked"]
                                 ELSE IdleThread]
    /\ UNCHANGED notK
    /\ UNCHANGED <<op, chActive, chHasFuture, chPromise, cActive, cHasFuture, cCb,
                   cFuture, kq, klog>>
    /\ UNCHANGED hvars

\* cb(r): the hook runs
WorkerHook(t) ==
    /\ kpc[t].st = "checked"
    /\ ChildHook(kpc[t].child, kpc[t].val)
    /\ kpc' = [kpc EXCEPT ![t] = IdleThread]
    /\ UNCHANGED notK
    /\ UNCHANGED <<op, chActive, chPromise, cHasFuture, cCb, cFuture, kq, chCb,
                   chCanceller, cancelRuns>>

InitComb ==
    /\ op = "none"
    /\ chActive = [i \in Child |-> TRUE]
    /\ chHasFuture = [i \in Child |-> TRUE]
    /\ chPromise = [i \in Child |-> "user"]
    /\ cActive = FALSE
    /\ cHasFuture = FALSE
    /\ cCb = FALSE
    /\ cFuture = "none"
    /\ kq = <<>>
    /\ kpc = [t \in Th |-> IdleThread]
    /\ klog = <<>>
    /\ chCb = [i \in Child |-> FALSE]
    /\ chCanceller = [i \in Child |-> FALSE]
    /\ chCalls = <<>>
    /\ cancelRuns = [i \in Child |-> 0]

(* ====== OnAllCompleted / OnAnyCompleted (canceller.hpp, async.cpp) ===== *)
TrackedCb == 1 .. MaxTracked
Handle == 1 .. MaxHandles
SyncState == 1 .. MaxStates
\* nullptr in m_state
NullState == 0
Tracked == {i \in TrackedCb : wstate[i] # "untracked"}
\* the callbacks whose wrapper was made with State s
TrackedOn(s) == {i \in TrackedCb : wref[i] = s}
HasFired(i) == sRuns[i] > 0
FreshTracked ==
    {i \in TrackedCb : wstate[i] = "untracked"
                       /\ \A j \in TrackedCb : j < i => wstate[j] # "untracked"}
\* the State objects allocated so far
Made == 1 .. nStates
\* a State that no synchronizer object points to any more
Dropped(s) == s \in Made /\ \A h \in Handle : m_state[h] # s

\* a comparison that would not tell an attached synchronizer from a detached one
AllCompleteUnattached(fired, tracked) == fired = tracked % ATTACHED
\* firedCount == trackedCount
AllComplete(fired, tracked) == fired = tracked

\* a wrapper that would notify on the first callback whatever the synchronizer
FirstFired(fired, tracked) == fired = 1
\* firedCount == 1U && trackedCount < 10'000U
FirstAfterDetach(fired, tracked) == fired = 1 /\ tracked < ATTACHED

\* a wrapper that would treat every synchronizer as an OnAnyCompleted
WrapperNotifiesAny(fired, tracked) == FirstAfterDetach(fired, tracked)
\* the wrapper of a tracked callback, with its state pointer still set:
\* whether it calls the listener, whether it deletes the state
WrapperNotifies(fired, tracked) ==
    IF sKind = "all" THEN AllComplete(fired, tracked)
    ELSE FirstAfterDetach(fired, tracked)
WrapperDeletes(fired, tracked) == AllComplete(fired, tracked)

\* Detach(): whether it calls the listener, whether it deletes the state
DetachNotifies(fired, tracked) ==
    IF sKind = "all" THEN AllComplete(fired, tracked) ELSE fired > 0
DetachDeletes(fired, tracked) == AllComplete(fired, tracked)

\* Detach() of an object whose m_state is p: the States after it
DetachTracked(p) ==
    IF p = NullState THEN trackedCount
    ELSE [trackedCount EXCEPT ![p] = @ - ATTACHED]
DetachCalls(p) ==
    IF p # NullState /\ DetachNotifies(firedCount[p], trackedCount[p] - ATTACHED)
    THEN [listenerCalls EXCEPT ![p] = @ + 1]
    ELSE listenerCalls
DetachAlive(p) ==
    IF p # NullState /\ DetachDeletes(firedCount[p], trackedCount[p] - ATTACHED)
    THEN [stateAlive EXCEPT ![p] = FALSE]
    ELSE stateAlive

\* a moved-from object that would keep its pointer
MovedFromKeeps(p) == p
\* `other.m_state = nullptr` / std::exchange(other.m_state, nullptr)
MovedFrom(p) == NullState

\* OnAllCompleted sync(listener) / OnAnyCompleted sync(listener)
MakeSync(k, h) ==
    /\ sObj[h] = "none"
    /\ \A g \in Handle : g < h => sObj[g] # "none"
    /\ sKind \in {"none", k}
    /\ nStates < MaxStates
    /\ nStates' = nStates + 1
    /\ sObj' = [sObj EXCEPT ![h] = "alive"]
    /\ m_state' = [m_state EXCEPT ![h] = nStates + 1]
    /\ sKind' = k
    /\ stateAlive' = [stateAlive EXCEPT ![nStates + 1] = TRUE]
    /\ trackedCount' = [trackedCount EXCEPT ![nStates + 1] = ATTACHED]
    /\ firedCount' = [firedCount EXCEPT ![nStates + 1] = 0]
    /\ UNCHANGED notS
    /\ UNCHANGED <<listenerCalls, wstate, wref, sRuns, syncErrors>>

\* OnAllCompleted sync; / OnAnyCompleted sync; (no listener, no State)
DefaultSync(h) ==
    /\ sObj[h] = "none"
    /\ \A g \in Handle : g < h => sObj[g] # "none"
    /\ sObj' = [sObj EXCEPT ![h] = "alive"]
    /\ m_state' = [m_state EXCEPT ![h] = NullState]
    /\ UNCHANGED notS
    /\ UNCHANGED <<sKind, nStates, stateAlive, trackedCount, firedCount,
                   listenerCalls, wstate, wref, sRuns, syncErrors>>

\* T g = std::move(h)
MoveSync(h, g) ==
    /\ sObj[h] = "alive"
    /\ sObj[g] = "none"
    /\ \A f \in Handle : f < g => sObj[f] # "none"
    /\ sObj' = [sObj EXCEPT ![g] = "alive"]
    /\ m_state' = [m_state EXCEPT ![g] = m_state[h], ![h] = MovedFrom(m_state[h])]
    /\ UNCHANGED notS
    /\ UNCHANGED <<sKind, nStates, stateAlive, trackedCount, firedCount,
                   listenerCalls, wstate, wref, sRuns, syncErrors>>

\* h = std::move(g): nothing if both hold the same pointer, else Detach() of
\* h and then the transfer
MoveAssignSync(h, g) ==
    /\ h # g
    /\ sObj[h] = "alive"
    /\ sObj[g] = "alive"
    /\ IF m_state[h] # m_state[g]
       THEN /\ trackedCount' = DetachTracked(m_state[h])
            /\ listenerCalls' = DetachCalls(m_state[h])
            /\ stateAlive' = DetachAlive(m_state[h])
            /\ m_state' = [m_state EXCEPT ![h] = m_state[g],
                                          ![g] = MovedFrom(m_state[g])]
       ELSE UNCHANGED <<trackedCount, listenerCalls, stateAlive, m_state>>
    /\ UNCHANGED notS
    /\ UNCHANGED <<sKind, sObj, nStates, firedCount, wstate, wref, sRuns,
                   syncErrors>>

\* sync.Track(cb): Modify wraps cb's function
Track(h, i) ==
    /\ sObj[h] = "alive"
    /\ m_state[h] # NullState
    /\ i \in FreshTracked
    /\ trackedCount' = [trackedCount EXCEPT ![m_state[h]] = @ + 1]
    /\ wstate' = [wstate EXCEPT ![i] = "armed"]
    /\ wref' = [wref EXCEPT ![i] = m_state[h]]
    /\ UNCHANGED notS
    /\ UNCHANGED <<sKind, sObj, m_state, nStates, stateAlive, firedCount,
                   listenerCalls, sRuns, syncErrors>>

\* sync.Track(cb) on an object without State: Modify throws
\* std::runtime_error before it touches cb
TrackThrows(h, i) ==
    /\ sObj[h] = "alive"
    /\ m_state[h] = NullState
    /\ i \in FreshTracked
    /\ syncErrors < MaxTrackErrors
    /\ syncErrors' = syncErrors + 1
    /\ UNCHANGED notS
    /\ UNCHANGED <<sKind, sObj, m_state, nStates, stateAlive, trackedCount,
                   firedCount, listenerCalls, wstate, wref, sRuns>>

\* a tracked callback is invoked while not cancelled: its wrapper runs
InvokeTracked(i) ==
    /\ i \in Tracked
    /\ sRuns[i] < MaxInvoke
    /\ sRuns' = [sRuns EXCEPT ![i] = @ + 1]
    /\ IF wstate[i] = "armed"
       THEN LET s == wref[i]
            IN /\ firedCount' = [firedCount EXCEPT ![s] = @ + 1]
               /\ listenerCalls' =
                     IF WrapperNotifies(firedCount[s] + 1, trackedCount[s])
                     THEN [listenerCalls EXCEPT ![s] = @ + 1] ELSE listenerCalls
               /\ stateAlive' =
                     IF WrapperDeletes(firedCount[s] + 1, trackedCount[s])
                     THEN [stateAlive EXCEPT ![s] = FALSE] ELSE stateAlive
               /\ wstate' = [wstate EXCEPT ![i] = "spent"]
       ELSE UNCHANGED <<firedCount, listenerCalls, stateAlive, wstate>>
    /\ UNCHANGED notS
    /\ UNCHANGED <<sKind, sObj, m_state, nStates, trackedCount, wref, syncErrors>>

\* ~SynchronizerBase(): Detach()
DestroySync(h) ==
    /\ sObj[h] = "alive"
    /\ sObj' = [sObj EXCEPT ![h] = "none"]
    /\ trackedCount' = DetachTracked(m_state[h])
    /\ listenerCalls' = DetachCalls(m_state[h])
    /\ stateAlive' = DetachAlive(m_state[h])
    /\ m_state' = [m_state EXCEPT ![h] = NullState]
    /\ UNCHANGED notS
    /\ UNCHANGED <<sKind, nStates, firedCount, wstate, wref, sRuns, syncErrors>>

InitSync ==
    /\ sKind = "none"
    /\ sObj = [h \in Handle |-> "none"]
    /\ m_state = [h \in Handle |-> NullState]
    /\ nStates = 0
    /\ stateAlive = [s \in SyncState |-> FALSE]
    /\ trackedCount = [s \in SyncState |-> 0]
    /\ firedCount = [s \in SyncState |-> 0]
    /\ listenerCalls = [s \in SyncState |-> 0]
    /\ wstate = [i \in TrackedCb |-> "untracked"]
    /\ wref = [i \in TrackedCb |-> NullState]
    /\ sRuns = [i \in TrackedCb |-> 0]
    /\ syncErrors = 0

(* ===================== WorkerPool (src/src/workerpool.cpp) ============= *)
PoolThread == 1 .. MaxThreads
Client == 1 .. NClients
NoThread == [st |-> "none", kind |-> "none"]
IdleClient == [pc |-> "idle", wc |-> 0]
PoolTask == 1 .. MaxTasks
NoTask == [st |-> "none", by |-> 0, runs |-> 0]
\* the tasks of Execute that are in m_queue
Queued == {i \in PoolTask : ptask[i].st = "queued"}
\* a queue that hands out a task it has handed out before
DequeuableAgain == {i \in PoolTask : ptask[i].st \in {"queued", "running"}}
\* what a dequeue can return: a task of Execute or, 0, one of the other
\* tasks in m_queue (the timer's and the destructor's)
Dequeuable == Queued \cup (IF pq > Cardinality(Queued) THEN {0} ELSE {})
\* the task a worker is running leaves InvokeGuarded
Finish(w) ==
    [i \in PoolTask |->
        IF ptask[i].st = "running" /\ ptask[i].by = w
        THEN [ptask[i] EXCEPT !.st = "done"]
        ELSE ptask[i]]
FreeThread ==
    {w \in PoolThread : wk[w].st = "none"
                        /\ \A v \in PoolThread : v < w => wk[v].st # "none"}
\* the threads that have started their worker function and not left it
LiveWorkers == {w \in PoolThread : wk[w].st \in {"waiting", "busy", "leaving"}}

\* ExecuteTask: `if (workerCount < MAX_SIZE) if (workerCount == GetBusyCount())`
Spawns(workerCount, busyCount) ==
    workerCount < MAX_SIZE /\ workerCount = busyCount

\* where a worker is after `while (!ctx->m_stopped)`: out of the loop when the
\* pool is stopped, in the dequeue otherwise
LoopHead == IF m_stopped THEN "leaving" ELSE "waiting"

\* ExecuteTask, first half: AddTask and the read of m_workerCount
ExecuteAdd(c) ==
    /\ cl[c].pc = "idle"
    /\ dtor.pc = "alive"
    /\ executed < MaxTasks
    /\ executed' = executed + 1
    /\ ptask' = [ptask EXCEPT ![executed + 1].st = "queued"]
    /\ pq' = pq + 1
    /\ cl' = [cl EXCEPT ![c] = [pc |-> "read", wc |-> m_workerCount]]
    /\ UNCHANGED notP
    /\ UNCHANGED tvars
    /\ UNCHANGED <<wk, m_workerCount, m_busyCount, m_stopped, dtor>>

\* ExecuteTask, second half: the read of m_busyCount and
\* std::thread(RunOptionalWorker, m_ctx).detach()
ExecuteDecide(c) ==
    /\ cl[c].pc = "read"
    /\ cl' = [cl EXCEPT ![c] = IdleClient]
    /\ IF Spawns(cl[c].wc, m_busyCount)
       THEN /\ FreeThread # {}
            /\ wk' = [w \in PoolThread |->
                        IF w \in FreeThread
                        THEN [st |-> "spawned", kind |-> "optional"]
                        ELSE wk[w]]
       ELSE UNCHANGED wk
    /\ UNCHANGED notP
    /\ UNCHANGED tvars
    /\ UNCHANGED <<m_workerCount, m_busyCount, pq, executed, ptask, m_stopped, dtor>>

\* RunMandatoryWorker / RunOptionalWorker starts: m_workerCount.fetch_add(1)
WorkerBegin(w) ==
    /\ wk[w].st = "spawned"
    /\ wk' = [wk EXCEPT ![w].st = LoopHead]
    /\ m_workerCount' = m_workerCount + 1
    /\ UNCHANGED notP
    /\ UNCHANGED tvars
    /\ UNCHANGED <<m_busyCount, pq, cl, executed, ptask, m_stopped, dtor>>

\* the dequeue returns a task and InvokeGuarded counts the worker busy
WorkerDequeue(w) ==
    /\ wk[w].st = "waiting"
    /\ pq > 0
    /\ pq' = pq - 1
    /\ \E i \in Dequeuable :
          ptask' = IF i = 0 THEN ptask
                   ELSE [ptask EXCEPT ![i] = [st |-> "running", by |-> w,
                                              runs |-> @.runs + 1]]
    /\ wk' = [wk EXCEPT ![w].st = "busy"]
    /\ m_busyCount' = m_busyCount + 1
    /\ UNCHANGED notP
    /\ UNCHANGED tvars
    /\ UNCHANGED <<m_workerCount, cl, executed, m_stopped, dtor>>

\* an InvokeGuarded that would leave the counter as it is
AfterTaskKept(n) == n
\* InvokeGuarded, after t() or a catch clause: m_busyCount.fetch_sub(1)
AfterTask(n) == n - 1

\* the task returns (or throws, CATCH_EXCEPTIONS): m_busyCount.fetch_sub(1)
WorkerDone(w) ==
    /\ wk[w].st = "busy"
    /\ wk' = [wk EXCEPT ![w].st = LoopHead]
    /\ m_busyCount' = AfterTask(m_busyCount)
    /\ ptask' = Finish(w)
    /\ UNCHANGED notP
    /\ UNCHANGED tvars
    /\ UNCHANGED <<m_workerCount, pq, cl, executed, m_stopped, dtor>>

\* an exception swallowed without a log line
LoggedNothing(n) == n
\* InvokeGuarded with CATCH_EXCEPTIONS: either catch clause calls m_logger once
Logged(n) == n + 1

\* the task throws: InvokeGuarded catches, logs, and m_busyCount.fetch_sub(1)
WorkerThrow(w) ==
    /\ wk[w].st = "busy"
    /\ wk' = [wk EXCEPT ![w].st = LoopHead]
    /\ m_busyCount' = AfterTask(m_busyCount)
    /\ loglines' = Logged(loglines)
    /\ thrown' = thrown + 1
    /\ ptask' = Finish(w)
    /\ UNCHANGED notP
    /\ UNCHANGED <<m_workerCount, pq, cl, executed, m_stopped, dtor>>

\* a worker whose dequeue would give up as if every worker were optional
TimedDequeueAny(w) == wk[w].kind \in {"mandatory", "optional"}
\* the worker waits with wait_dequeue_timed (RunOptionalWorker), not with
\* wait_dequeue (RunMandatoryWorker)
TimedDequeue(w) == wk[w].kind = "optional"

\* wait_dequeue_timed runs out after MAX_LINGER with the queue empty: the
\* optional worker leaves, m_workerCount.fetch_sub(1)
WorkerLinger(w) ==
    /\ wk[w].st = "waiting"
    /\ TimedDequeue(w)
    /\ pq = 0
    /\ wk' = [wk EXCEPT ![w].st = "exited"]
    /\ m_workerCount' = m_workerCount - 1
    /\ UNCHANGED notP
    /\ UNCHANGED tvars
    /\ UNCHANGED <<m_busyCount, pq, cl, executed, ptask, m_stopped, dtor>>

\* a worker that found m_stopped set has left its loop: m_workerCount.fetch_sub(1)
WorkerExit(w) ==
    /\ wk[w].st = "leaving"
    /\ wk' = [wk EXCEPT ![w].st = "exited"]
    /\ m_workerCount' = m_workerCount - 1
    /\ UNCHANGED notP
    /\ UNCHANGED tvars
    /\ UNCHANGED <<m_busyCount, pq, cl, executed, ptask, m_stopped, dtor>>

\* ~WorkerPool: m_timer->Stop(); m_ctx->Stop()
DtorStop ==
    /\ dtor.pc = "alive"
    /\ \A c \in Client : cl[c].pc = "idle"
    /\ m_stopped' = TRUE
    /\ dtor' = [pc |-> "wake", i |-> 0]
    /\ UNCHANGED notP
    /\ UNCHANGED tvars
    /\ UNCHANGED <<wk, m_workerCount, m_busyCount, pq, cl, executed, ptask>>

\* ~WorkerPool: one turn of `for (i = 0; i < GetWorkerCount(); ++i) AddTask(...)`
DtorWake ==
    /\ dtor.pc = "wake"
    /\ IF dtor.i < m_workerCount
       THEN /\ pq' = pq + 1
            /\ dtor' = [dtor EXCEPT !.i = dtor.i + 1]
       ELSE /\ dtor' = [dtor EXCEPT !.pc = "join"]
            /\ UNCHANGED pq
    /\ UNCHANGED notP
    /\ UNCHANGED tvars
    /\ UNCHANGED <<wk, m_workerCount, m_busyCount, cl, executed, ptask, m_stopped>>

\* ~WorkerPool with JOIN_THREADS: `while (GetWorkerCount()) yield();` falls through
DtorJoin ==
    /\ dtor.pc = "join"
    /\ m_workerCount = 0
    /\ dtor' = [dtor EXCEPT !.pc = "returned"]
    /\ UNCHANGED notP
    /\ UNCHANGED tvars
    /\ UNCHANGED <<wk, m_workerCount, m_busyCount, pq, cl, executed, ptask, m_stopped>>

(* the timer thread (TimerCtx) *)
Timed == 1 .. MaxTimed
Clock == 0 .. MaxClock
NoDeadline == -1
Unscheduled == {k \in Timed : deadline[k] = NoDeadline}
\* the variables of the workers that the timer leaves alone
wvars == <<wk, m_workerCount, m_busyCount, cl, executed, ptask, m_stopped, dtor, tvars>>

RECURSIVE ByDeadline(_)
\* the entries of a multimap in key order (equal keys in insertion order,
\* which the model takes to be the order of the task numbers)
ByDeadline(S) ==
    IF S = {} THEN <<>>
    ELSE LET h == CHOOSE p \in S :
                     \A q \in S : \/ p.when < q.when
                                  \/ (p.when = q.when /\ p.id <= q.id)
         IN <<h.id>> \o ByDeadline(S \ {h})

\* entries that would stay in the map after being moved out
KeepTaken(due) == due
\* RunTimer: m_pending.erase(head) for every entry moved to ts
Erased(due) == {}

\* TimerCtx::Schedule(time_point, task) under the mutex
Schedule(k, when) ==
    /\ dtor.pc = "alive"
    /\ k \in Unscheduled
    /\ \A j \in Unscheduled : k <= j
    /\ deadline' = [deadline EXCEPT ![k] = when]
    /\ m_pending' = m_pending \cup {[id |-> k, when |-> when]}
    /\ UNCHANGED <<cvars, fvars, kvars, svars, evars, xvars>>
    /\ UNCHANGED <<wvars, pq, now, ts, tpc, handed>>

\* WorkerPool::ExecuteTaskIn: Schedule(m_now() + delay, ...)
ExecuteTaskIn(k, delay) == Schedule(k, now + delay)

\* WorkerPool::ExecuteTaskAt
ExecuteTaskAt(k, when) == Schedule(k, when)

\* the test advances the injected clock
ClockTick ==
    /\ now < MaxClock
    /\ now' = now + 1
    /\ UNCHANGED <<cvars, fvars, kvars, svars, evars, xvars>>
    /\ UNCHANGED <<wvars, pq, m_pending, ts, tpc, handed, deadline>>

\* RunTimer: the loop condition finds m_stopped set
TimerStop ==
    /\ tpc = "sleep"
    /\ m_stopped
    /\ tpc' = "exited"
    /\ UNCHANGED <<cvars, fvars, kvars, svars, evars, xvars>>
    /\ UNCHANGED <<wvars, pq, now, m_pending, ts, handed, deadline>>

\* RunTimer: one poll after the sleep: with the mutex held, read the clock
\* and move every entry whose deadline is <= timeNow to ts
TimerPoll ==
    /\ tpc = "sleep"
    /\ ~m_stopped
    /\ m_pending # {}
    /\ LET due == {p \in m_pending : p.when <= now}
       IN /\ ts' = ByDeadline(due)
          /\ m_pending' = (m_pending \ due) \cup Erased(due)
    /\ tpc' = "run"
    /\ UNCHANGED <<cvars, fvars, kvars, svars, evars, xvars>>
    /\ UNCHANGED <<wvars, pq, now, handed, deadline>>

\* RunTimer: `for (auto & t : ts) t();` one task: ctx->AddTask(std::move(t))
TimerHand ==
    /\ tpc = "run"
    /\ ts # <<>>
    /\ pq' = pq + 1
    /\ handed' = [handed EXCEPT ![Head(ts)] = @ + 1]
    /\ ts' = Tail(ts)
    /\ UNCHANGED <<cvars, fvars, kvars, svars, evars, xvars>>
    /\ UNCHANGED <<wvars, now, m_pending, tpc, deadline>>

\* RunTimer: ts.clear() and back to the loop head
TimerClear ==
    /\ tpc = "run"
    /\ ts = <<>>
    /\ tpc' = "sleep"
    /\ UNCHANGED <<cvars, fvars, kvars, svars, evars, xvars>>
    /\ UNCHANGED <<wvars, pq, now, m_pending, ts, handed, deadline>>

\* WorkerPool::WorkerPool has started the timer thread
InitTimer ==
    /\ now = 0
    /\ m_pending = {}
    /\ ts = <<>>
    /\ tpc = "sleep"
    /\ handed = [k \in Timed |-> 0]
    /\ deadline = [k \in Timed |-> NoDeadline]

\* WorkerPool::WorkerPool has created MIN_SIZE mandatory worker threads
InitPool ==
    /\ wk = [w \in PoolThread |->
               IF w <= MIN_SIZE THEN [st |-> "spawned", kind |-> "mandatory"]
               ELSE NoThread]
    /\ m_workerCount = 0
    /\ m_busyCount = 0
    /\ pq = 0
    /\ cl = [c \in Client |-> IdleClient]
    /\ executed = 0
    /\ ptask = [i \in PoolTask |-> NoTask]
    /\ m_stopped = FALSE
    /\ dtor = [pc |-> "alive", i |-> 0]
    /\ loglines = 0
    /\ thrown = 0

(* ========================= Worker (src/src/worker.cpp) ================= *)
Caller == 1 .. NCallers
Size == m_tasks.due + m_tasks.later
IdleCaller == [pc |-> "idle", later |-> FALSE]
\* m_tasks.emplace(timeToFire, work)
Emplaced(later) ==
    IF later THEN [m_tasks EXCEPT !.later = @ + 1]
    ELSE [m_tasks EXCEPT !.due = @ + 1]
\* the callers inside m_emptiedSignal.wait that no notification has reached
Waiting == {c \in Caller : caller[c].pc = "blocked" /\ c \notin woken}

\* a test that lets one task too many in
HasRoomOneMore == Size <= Capacity
\* m_tasks.size() < m_config.capacity
HasRoom == Size < Capacity

\* Worker::Schedule(delay, work): the wait's predicate is tested with the
\* mutex held; when it holds the task is emplaced, else the caller waits
WorkerSchedule(c, later) ==
    /\ caller[c].pc = "idle"
    /\ nCalls < MaxCalls
    /\ nCalls' = nCalls + 1
    /\ IF HasRoom
       THEN /\ m_tasks' = Emplaced(later)
            /\ UNCHANGED caller
       ELSE /\ caller' = [caller EXCEPT ![c] = [pc |-> "blocked", later |-> later]]
            /\ UNCHANGED m_tasks
    /\ UNCHANGED <<notX, qvars, uvars, yvars, memvars>>
    /\ UNCHANGED <<woken, m_thread, tryResult>>

\* a caller leaves m_emptiedSignal's wait without a notification
SpuriousWakeup(c) ==
    /\ c \in Waiting
    /\ woken' = woken \cup {c}
    /\ UNCHANGED <<notX, qvars, uvars, yvars, memvars>>
    /\ UNCHANGED <<m_tasks, caller, m_thread, tryResult, nCalls>>

\* an unblocked caller has the mutex again and tests the predicate
ScheduleRecheck(c) ==
    /\ c \in woken
    /\ woken' = woken \ {c}
    /\ IF HasRoom
       THEN /\ m_tasks' = Emplaced(caller[c].later)
            /\ caller' = [caller EXCEPT ![c] = IdleCaller]
       ELSE UNCHANGED <<m_tasks, caller>>
    /\ UNCHANGED <<notX, qvars, uvars, yvars, memvars>>
    /\ UNCHANGED <<m_thread, tryResult, nCalls>>

\* Worker::TrySchedule(delay, work)
WorkerTrySchedule(c, later) ==
    /\ caller[c].pc = "idle"
    /\ nCalls < MaxCalls
    /\ nCalls' = nCalls + 1
    /\ IF HasRoom
       THEN /\ m_tasks' = Emplaced(later)
            /\ tryResult' = [tryResult EXCEPT ![c] = "true"]
       ELSE /\ tryResult' = [tryResult EXCEPT ![c] = "false"]
            /\ UNCHANGED m_tasks
    /\ UNCHANGED <<notX, qvars, uvars, yvars, memvars>>
    /\ UNCHANGED <<caller, woken, m_thread>>

\* steady_clock reaches the time of an entry
DelayElapses ==
    /\ m_tasks.later > 0
    /\ m_tasks' = [due |-> m_tasks.due + 1, later |-> m_tasks.later - 1]
    /\ UNCHANGED <<notX, qvars, uvars, yvars, memvars>>
    /\ UNCHANGED <<caller, woken, m_thread, tryResult, nCalls>>

\* Worker::Run: the first entry is due; it is erased under the mutex and
\* m_emptiedSignal.notify_one() unblocks one waiting caller, if there is one
RunTake ==
    /\ m_thread = "waiting"
    /\ m_tasks.due > 0
    /\ m_tasks' = [m_tasks EXCEPT !.due = @ - 1]
    /\ m_thread' = "running"
    /\ IF Waiting = {} THEN UNCHANGED woken
       ELSE \E c \in Waiting : woken' = woken \cup {c}
    /\ UNCHANGED <<notX, qvars, uvars, yvars, memvars>>
    /\ UNCHANGED <<caller, tryResult, nCalls>>

\* Worker::Run: work() returns or its exception is handled
RunFinish ==
    /\ m_thread = "running"
    /\ m_thread' = "waiting"
    /\ UNCHANGED <<notX, qvars, uvars, yvars, memvars>>
    /\ UNCHANGED <<m_tasks, caller, woken, tryResult, nCalls>>

\* Worker::Worker: no task, the thread at the head of Run
InitWorker ==
    /\ m_tasks = [due |-> 0, later |-> 0]
    /\ caller = [c \in Caller |-> IdleCaller]
    /\ woken = {}
    /\ m_thread = "waiting"
    /\ tryResult = [c \in Caller |-> "none"]
    /\ nCalls = 0

(* ====== v3 CallbackOwner / RefCounter, v2 CallbackManager / Counter ===== *)
RefCounterId == 1 .. MaxCounters
OwnerCb == 1 .. MaxOwnerCb
NoCounter == 0
NoValue == -1
\* MASTER_MASK = UINT64_MAX - UINT64_MAX / 2: the top bit of the word
MASTER_MASK == 2 ^ (RefCountBits - 1)
\* SLAVE_MASK = ~MASTER_MASK
SLAVE_MASK == MASTER_MASK - 1
\* v2: MANAGER_ALIVE_MASK and CALLBACKS_ALIVE_MASK split the word the same way
MANAGER_ALIVE_MASK == 2 ^ (RefCountBits - 1)
CALLBACKS_ALIVE_MASK == MANAGER_ALIVE_MASK - 1

\* m_state & MASTER_MASK
HasMasterBit(v) == (v \div MASTER_MASK) % 2 = 1
\* a guard that lets every invocation through
HasMasterAlways(k) == TRUE
\* RefCounter::HasMaster / Counter::HasManager
HasMaster(k) == HasMasterBit(rcState[k])
\* RefCounter::GetSlaveCount / Counter::HasCallbacks: m_state & SLAVE_MASK
GetSlaveCount(k) == rcState[k] % MASTER_MASK
\* fetch_and(~MASTER_MASK)
ClearMaster(v) == v % MASTER_MASK
\* fetch_or(MASTER_MASK)
SetMaster(v) == (v % MASTER_MASK) + MASTER_MASK

\* RemoveSlave's test read as "the slave count was one"
SlaveCountWasOne(count) == count % MASTER_MASK = 1
\* v3 RemoveSlave: if (count == 1u) delete this
RemoveSlaveDeletes(count) == count = 1
\* v2 RemoveCallback: if (count == 1u) delete this
RemoveCallbackDeletes(count) == count = 1
\* v3 RemoveMaster: if (state == MASTER_MASK) delete this
RemoveMasterDeletes(state) == state = MASTER_MASK
\* v2 RemoveManager: if (count == MANAGER_ALIVE_MASK) delete this
RemoveManagerDeletes(count) == count = MANAGER_ALIVE_MASK
SlaveDeletes(count) ==
    IF lib = "v3" THEN RemoveSlaveDeletes(count) ELSE RemoveCallbackDeletes(count)
MasterDeletes(state) ==
    IF lib = "v3" THEN RemoveMasterDeletes(state) ELSE RemoveManagerDeletes(state)

NoSlot == [st |-> "none", token |-> NoCounter, count |-> NoValue,
           ran |-> "never"]
Unborn == {k \in RefCounterId : rcLife[k] = "unborn"}
\* the counter the next RefCounter::New() returns
NewCounter == CHOOSE k \in Unborn : \A l \in Unborn : k <= l

\* CallbackOwner::HasPendingCallbacks / CallbackManager::HasPending
HasPendingCallbacks == GetSlaveCount(mgr.handle) # 0

\* CallbackOwner::Cb / CallbackManager::Cb: the callback holds a slave of the
\* owner's counter (RefCounterSlave's constructor, Callback's constructor)
OwnerMakeCb(i) ==
    /\ mgr.pc = "alive"
    /\ slot[i].st = "none"
    /\ rcState' = [rcState EXCEPT ![mgr.handle] = @ + 1]
    /\ slot' = [slot EXCEPT ![i] = [NoSlot EXCEPT !.st = "live",
                                                  !.token = mgr.handle]]
    /\ UNCHANGED <<notX, rvars, uvars, yvars, memvars, nInvoked>>
    /\ UNCHANGED <<lib, rcLife, rcDeletes, mgr>>

\* the copy constructor of a callback: one more slave of the same counter
CopyCb(i, j) ==
    /\ slot[i].st = "live"
    /\ slot[j].st = "none"
    /\ rcState' = [rcState EXCEPT ![slot[i].token] = @ + 1]
    /\ slot' = [slot EXCEPT ![j] = [NoSlot EXCEPT !.st = "live",
                                                  !.token = slot[i].token]]
    /\ UNCHANGED <<notX, rvars, uvars, yvars, memvars, nInvoked>>
    /\ UNCHANGED <<lib, rcLife, rcDeletes, mgr>>

\* the callback's operator(): if (token.Get()->HasMaster()) f(args...).
\* A v2 callback runs on the manager's thread (CheckThread), so never while
\* the manager is inside its destructor.
InvokeCb(i) ==
    /\ slot[i].st = "live"
    /\ nInvoked < MaxInvocations
    /\ lib = "v2" => mgr.pc \in {"alive", "dead"}
    /\ nInvoked' = nInvoked + 1
    /\ slot' = [slot EXCEPT ![i].ran = IF HasMaster(slot[i].token)
                                       THEN "called" ELSE "skipped"]
    /\ UNCHANGED <<notX, rvars, uvars, yvars, memvars>>
    /\ UNCHANGED <<lib, rcState, rcLife, rcDeletes, mgr>>

\* `delete this`
Deleted(k) ==
    /\ rcLife' = [rcLife EXCEPT ![k] = "deleted"]
    /\ rcDeletes' = [rcDeletes EXCEPT ![k] = @ + 1]

\* the callback's destructor, first half: m_state.fetch_sub(1u)
RemoveSlaveFetch(i) ==
    /\ slot[i].st = "live"
    /\ slot' = [slot EXCEPT ![i].st = "removing",
                            ![i].count = rcState[slot[i].token]]
    /\ rcState' = [rcState EXCEPT ![slot[i].token] = @ - 1]
    /\ UNCHANGED <<notX, rvars, uvars, yvars, memvars, nInvoked>>
    /\ UNCHANGED <<lib, rcLife, rcDeletes, mgr>>

\* the callback's destructor, second half: the test of the fetched value
RemoveSlaveFinish(i) ==
    /\ slot[i].st = "removing"
    /\ slot' = [slot EXCEPT ![i].st = "gone"]
    /\ IF SlaveDeletes(slot[i].count)
       THEN Deleted(slot[i].token)
       ELSE UNCHANGED <<rcLife, rcDeletes>>
    /\ UNCHANGED <<notX, rvars, uvars, yvars, memvars, nInvoked>>
    /\ UNCHANGED <<lib, rcState, mgr>>

\* ~CallbackOwner / ~CallbackManager, first half: fetch_and(~MASTER_MASK)
DestroyOwner ==
    /\ mgr.pc = "alive"
    /\ mgr' = [mgr EXCEPT !.pc = "dying", !.state = rcState[mgr.handle]]
    /\ rcState' = [rcState EXCEPT ![mgr.handle] = ClearMaster(@)]
    /\ UNCHANGED <<notX, rvars, uvars, yvars, memvars, nInvoked>>
    /\ UNCHANGED <<lib, rcLife, rcDeletes, slot>>

\* CallbackOwner::DeactivateCallbacks: m_handle.emplace(RefCounter::New()).
\* New() is evaluated first, then the old RefCounterMaster is destroyed;
\* this is its fetch_and
DeactivateCallbacks ==
    /\ lib = "v3"
    /\ mgr.pc = "alive"
    /\ Unborn # {}
    /\ rcLife' = [rcLife EXCEPT ![NewCounter] = "live"]
    /\ mgr' = [mgr EXCEPT !.pc = "deactivating", !.state = rcState[mgr.handle],
                          !.next = NewCounter]
    /\ rcState' = [rcState EXCEPT ![mgr.handle] = ClearMaster(@)]
    /\ UNCHANGED <<notX, rvars, uvars, yvars, memvars, nInvoked>>
    /\ UNCHANGED <<lib, rcDeletes, slot>>

\* RemoveMaster / RemoveManager, second half: the test of the fetched value;
\* in DeactivateCallbacks the new RefCounterMaster is then constructed
\* (AddMaster) in m_handle
RemoveMasterFinish ==
    /\ mgr.pc \in {"dying", "deactivating"}
    /\ IF MasterDeletes(mgr.state)
       THEN Deleted(mgr.handle)
       ELSE UNCHANGED <<rcLife, rcDeletes>>
    /\ IF mgr.pc = "dying"
       THEN /\ mgr' = [mgr EXCEPT !.pc = "dead", !.state = NoValue]
            /\ UNCHANGED rcState
       ELSE /\ mgr' = [pc |-> "alive", handle |-> mgr.next, state |-> NoValue,
                       next |-> NoCounter]
            /\ rcState' = [rcState EXCEPT ![mgr.next] = SetMaster(@)]
    /\ UNCHANGED <<notX, rvars, uvars, yvars, memvars, nInvoked>>
    /\ UNCHANGED <<lib, slot>>

\* CallbackOwner() : m_handle(RefCounter::New()), where RefCounterMaster's
\* constructor calls AddMaster: one counter with the master bit and no slave
NewCallbackOwner ==
    /\ mgr.pc = "unmade"
    /\ lib' = "v3"
    /\ rcLife' = [rcLife EXCEPT ![NewCounter] = "live"]
    /\ rcState' = [rcState EXCEPT ![NewCounter] = SetMaster(@)]
    /\ mgr' = [mgr EXCEPT !.pc = "alive", !.handle = NewCounter]
    /\ UNCHANGED <<notX, rvars, uvars, yvars, memvars, nInvoked>>
    /\ UNCHANGED <<rcDeletes, slot>>

\* CallbackManager() : m_counter(new Counter), where
\* m_refcount = MANAGER_ALIVE_MASK
NewCallbackManager ==
    /\ mgr.pc = "unmade"
    /\ lib' = "v2"
    /\ rcLife' = [rcLife EXCEPT ![NewCounter] = "live"]
    /\ rcState' = [rcState EXCEPT ![NewCounter] = MANAGER_ALIVE_MASK]
    /\ mgr' = [mgr EXCEPT !.pc = "alive", !.handle = NewCounter]
    /\ UNCHANGED <<notX, rvars, uvars, yvars, memvars, nInvoked>>
    /\ UNCHANGED <<rcDeletes, slot>>

\* no owner has been constructed and no counter allocated
InitOwner ==
    /\ lib = "none"
    /\ rcState = [k \in RefCounterId |-> 0]
    /\ rcLife = [k \in RefCounterId |-> "unborn"]
    /\ rcDeletes = [k \in RefCounterId |-> 0]
    /\ mgr = [pc |-> "unmade", handle |-> NoCounter, state |-> NoValue,
              next |-> NoCounter]
    /\ slot = [i \in OwnerCb |-> NoSlot]
    /\ nInvoked = 0

(* ============ one flag slot reused by successive callbacks ============= *)
\* the CallbackId variable before MakeCb has written it
Unissued == -2
\* the slot's index in m_activeFlags
WatchedSlot == 0
Held == reuse.id \notin {Unissued, NoId}

\* RegisterCallback finds the slot free: flag.Activate(), and the id written
\* to the caller's CallbackId is either the one followed here (keep) or
\* another callback's
SlotRegister(keep) ==
    /\ ~IsAlive(reuse.flag)
    /\ Held => reuse.n < MaxReuse
    /\ LET flag == Activate(reuse.flag)
       IN  reuse' = [reuse EXCEPT
                       !.flag = flag,
                       !.id = IF @ = Unissued /\ keep
                              THEN MakeCallbackId(flag, WatchedSlot) ELSE @,
                       !.n = IF Held THEN @ + 1 ELSE @]
    /\ UNCHANGED <<notX, rvars, qvars, yvars, memvars>>

\* ~Callback of the slot's occupant: m_flagRef.Deactivate()
SlotRelease ==
    /\ IsAlive(reuse.flag)
    /\ reuse' = [reuse EXCEPT !.flag = Deactivate(@)]
    /\ UNCHANGED <<notX, rvars, qvars, yvars, memvars>>

\* CancelCallback with the occupant's own id
OccupantCancel ==
    /\ IsAlive(reuse.flag)
    /\ ~IsCancelled(reuse.flag)
    /\ reuse' = [reuse EXCEPT
                   !.flag = CancelFlag(@, MakeCallbackId(reuse.flag, WatchedSlot))]
    /\ UNCHANGED <<notX, rvars, qvars, yvars, memvars>>

\* CancelCallback(id) with the id followed here
SlotCancelCallback ==
    /\ Held
    /\ reuse' = [reuse EXCEPT !.flag = CancelFlag(@, reuse.id),
                              !.id = NoId,
                              !.last = "cancel"]
    /\ UNCHANGED <<notX, rvars, qvars, yvars, memvars>>

\* IsActive(id) with the id followed here
SlotIsActive ==
    /\ Held
    /\ LET isActive == FlagActive(reuse.flag, reuse.id)
       IN  reuse' = [reuse EXCEPT !.id = IF isActive THEN @ ELSE NoId,
                                  !.last = IF isActive THEN "active" ELSE "inactive"]
    /\ UNCHANGED <<notX, rvars, qvars, yvars, memvars>>

\* Canceller(): m_activeFlags{} is zeroed, no id has been issued
InitSlot == reuse = [flag |-> 0, id |-> Unissued, n |-> 0, last |-> "none"]

(* ------------------------------ mem::Pool ------------------------------ *)
Class == 1 .. NClasses
Ptr == 1 .. MaxPtrs
\* Block(): taken = ATOMIC_FLAG_INIT, nothing in the buffer
NewBlock == [taken |-> FALSE, objs |-> {}]
NoPtr == [st |-> "unmade", cls |-> 0, refs |-> 0]
FreshPtr == {p \in Ptr : pptr[p].st = "unmade" /\ \A q \in Ptr : q < p => pptr[q].st # "unmade"}

\* the position of the first block whose test_and_set returns false, 0 if the
\* loop reaches end()
FirstFree(blocks) ==
    IF \E i \in 1 .. Len(blocks) : ~blocks[i].taken
    THEN CHOOSE i \in 1 .. Len(blocks) :
            ~blocks[i].taken /\ \A j \in 1 .. (i - 1) : blocks[j].taken
    ELSE 0
RemoveAt(blocks, i) == SubSeq(blocks, 1, i - 1) \o SubSeq(blocks, i + 1, Len(blocks))

\* the flag of the block Allocate emplaces when no block is free: the code
\* does not test_and_set it
GrownTaken == FALSE
\* Allocate<T>(args...) for owner p, up to the placement new: the list and
\* the position of the block chosen
Allocate(blocks, p) ==
    LET i == FirstFree(blocks)
    IN  IF i # 0
        THEN Append(RemoveAt(blocks, i), [taken |-> TRUE, objs |-> blocks[i].objs \cup {p}])
        ELSE Append(blocks, [taken |-> GrownTaken, objs |-> {p}])
\* catch (...) { it->taken.clear(); throw; }
AllocateThrows(blocks) ==
    LET i == FirstFree(blocks)
    IN  IF i # 0
        THEN Append(RemoveAt(blocks, i), [taken |-> FALSE, objs |-> blocks[i].objs])
        ELSE Append(blocks, NewBlock)
\* the blocks whose buffer holds the object of p
BlocksOf(blocks, p) == {i \in 1 .. Len(blocks) : p \in blocks[i].objs}
\* Deallocate(obj): ~T(), then b->taken.clear()
Deallocate(blocks, p) ==
    [i \in 1 .. Len(blocks) |->
        IF p \in blocks[i].objs
        THEN [taken |-> FALSE, objs |-> blocks[i].objs \ {p}]
        ELSE blocks[i]]
\* Deallocate of an object whose block has been removed writes through a
\* dangling pointer: nothing of the list changes, or the flag of a block that
\* took the freed storage is cleared
DeallocateDangling(blocks) ==
    {blocks} \cup {[blocks EXCEPT ![i].taken = FALSE] : i \in 1 .. Len(blocks)}
\* remove_if(!b.taken.test_and_set()): the blocks whose flag was set stay
ShrinkClass(blocks) == SelectSeq(blocks, LAMBDA b : b.taken)
RECURSIVE RemoveFree(_, _)
\* Resize's remove_if: the first k blocks whose flag is clear go, the flag of
\* no other block is touched
RemoveFree(blocks, k) ==
    IF blocks = <<>> \/ k = 0 THEN blocks
    ELSE IF ~Head(blocks).taken
         THEN RemoveFree(Tail(blocks), k - 1)
         ELSE <<Head(blocks)>> \o RemoveFree(Tail(blocks), k)
\* Resize(new_block_count) of one class
ResizeClass(blocks, n) ==
    IF n >= Len(blocks)
    THEN [i \in 1 .. (n - Len(blocks)) |-> NewBlock] \o blocks
    ELSE RemoveFree(blocks, Len(blocks) - n)
RECURSIVE SumLen(_)
SumLen(k) == IF k = 0 THEN 0 ELSE Len(m_blocks[k]) + SumLen(k - 1)
\* GetBlockCount(): Base::GetBlockCount() + m_blocks.size()
GetBlockCount == SumLen(NClasses)
\* the owners whose object has been constructed and not destroyed
LiveObjects == {p \in Ptr : pptr[p].st = "held"}

\* Pool(block_count)
NewPool(n) ==
    /\ pool = "unmade"
    /\ pool' = "made"
    /\ m_blocks' = [k \in Class |-> [i \in 1 .. n |-> NewBlock]]
    /\ UNCHANGED <<pptr, notX, rvars, qvars, uvars, yvars>>

\* Make<T>(args...) and MakeShared<T>(args...), T of size class k
Make(k, shared) ==
    /\ pool = "made"
    /\ FirstFree(m_blocks[k]) = 0 => Len(m_blocks[k]) < MaxBlocks
    /\ \E p \in FreshPtr :
          /\ m_blocks' = [m_blocks EXCEPT ![k] = Allocate(@, p)]
          /\ pptr' = [pptr EXCEPT ![p] = [st |-> "held", cls |-> k,
                                          refs |-> IF shared THEN 1 ELSE 0]]
    /\ UNCHANGED <<pool, notX, rvars, qvars, uvars, yvars>>

\* Make whose T(args...) throws
MakeThrows(k) ==
    /\ pool = "made"
    /\ FirstFree(m_blocks[k]) = 0 => Len(m_blocks[k]) < MaxBlocks
    /\ m_blocks' = [m_blocks EXCEPT ![k] = AllocateThrows(@)]
    /\ UNCHANGED <<pool, pptr, notX, rvars, qvars, uvars, yvars>>

\* a copy of the shared_ptr is made
CopyShared(p) ==
    /\ pptr[p].st = "held"
    /\ pptr[p].refs \in 1 .. (MaxShares - 1)
    /\ pptr' = [pptr EXCEPT ![p].refs = @ + 1]
    /\ UNCHANGED <<pool, m_blocks, notX, rvars, qvars, uvars, yvars>>

\* PoolPtr::Reset / ~PoolPtr, or reset of one copy of the shared_ptr: the
\* last owner calls the deallocator
ResetPtr(p) ==
    /\ pptr[p].st = "held"
    /\ IF pptr[p].refs > 1
       THEN /\ pptr' = [pptr EXCEPT ![p].refs = @ - 1]
            /\ UNCHANGED m_blocks
       ELSE /\ pptr' = [pptr EXCEPT ![p].st = "null", ![p].refs = 0]
            /\ LET k == pptr[p].cls
               IN  IF BlocksOf(m_blocks[k], p) # {}
                   THEN m_blocks' = [m_blocks EXCEPT ![k] = Deallocate(@, p)]
                   ELSE \E bs \in DeallocateDangling(m_blocks[k]) :
                           m_blocks' = [m_blocks EXCEPT ![k] = bs]
    /\ UNCHANGED <<pool, notX, rvars, qvars, uvars, yvars>>

\* ShrinkToFit(): Base::ShrinkToFit(), then this class
ShrinkToFit ==
    /\ pool = "made"
    /\ m_blocks' = [k \in Class |-> ShrinkClass(m_blocks[k])]
    /\ UNCHANGED <<pool, pptr, notX, rvars, qvars, uvars, yvars>>

\* Resize(new_block_count): Base::Resize(n), then this class
Resize(n) ==
    /\ pool = "made"
    /\ m_blocks' = [k \in Class |-> ResizeClass(m_blocks[k], n)]
    /\ UNCHANGED <<pool, pptr, notX, rvars, qvars, uvars, yvars>>

\* no Pool has been constructed
InitMem ==
    /\ pool = "unmade"
    /\ m_blocks = [k \in Class |-> <<>>]
    /\ pptr = [p \in Ptr |-> NoPtr]

(* ------------------------------ Canceller ------------------------------ *)
\* the owner thread is neither inside ~Canceller nor past the object's life
OwnerCall == owner = "alive"
\* the owner thread can run code that only touches Callback objects
ThreadRuns == owner \in {"alive", "dead"}

\* RegisterCallback's scan: the position of m_lastUsedFlag after k increments
Step(k) == (m_lastUsedFlag + k) % N
FreeSteps == {k \in 1 .. N : ~IsAlive(m_activeFlags[Step(k)])}
\* a scan that stops one slot short
ShortFreeSteps == {k \in 1 .. (N - 1) : ~IsAlive(m_activeFlags[Step(k)])}

FreeScan == FreeSteps
\* RegisterCallback throws "Number of callbacks exceeds Canceller capacity"
RegisterThrows == FreeScan = {}
\* the index RegisterCallback finds
FoundIndex == Step(CHOOSE k \in FreeScan : \A j \in FreeScan : k <= j)

FreshCb == {c \in Cb : cbs[c].st = "none" /\ \A d \in Cb : d < c => cbs[d].st # "none"}

\* MakeCb(f, &id): a tracked callback
MakeCbTracked ==
    /\ OwnerCall
    /\ ~RegisterThrows
    /\ \E c \in FreshCb :
        LET idx == FoundIndex
            flag == Activate(m_activeFlags[idx])
        IN  /\ m_activeFlags' = [m_activeFlags EXCEPT ![idx] = flag]
            /\ m_lastUsedFlag' = idx
            /\ ids' = [ids EXCEPT ![c] = MakeCallbackId(flag, idx)]
            /\ cbs' = [cbs EXCEPT ![c] =
                         [st |-> "live", token |-> m_token, fn |-> c, flagRef |-> idx]]
            /\ issued' = [issued EXCEPT ![c] =
                         [made |-> TRUE, tracked |-> TRUE,
                          id |-> MakeCallbackId(flag, idx), token |-> m_token]]
    /\ UNCHANGED fvars
    /\ UNCHANGED ovars
    /\ UNCHANGED <<m_token, owner, nTokens, wraps, stack, t2, revoked>>

\* MakeCb(f): RegisterCallback(nullptr) gives an empty flag reference
MakeCbUntracked ==
    /\ OwnerCall
    /\ \E c \in FreshCb :
        /\ cbs' = [cbs EXCEPT ![c] =
                     [st |-> "live", token |-> m_token, fn |-> c, flagRef |-> NoFlag]]
        /\ issued' = [issued EXCEPT ![c] =
                     [made |-> TRUE, tracked |-> FALSE, id |-> NoId, token |-> m_token]]
    /\ UNCHANGED fvars
    /\ UNCHANGED ovars
    /\ UNCHANGED <<m_activeFlags, m_lastUsedFlag, m_token, owner, nTokens, ids,
                   wraps, stack, t2, revoked>>

\* Wrap(f)
Wrap ==
    /\ OwnerCall
    /\ \E w \in Wr :
        /\ wraps[w] = NoToken
        /\ \A v \in Wr : v < w => wraps[v] # NoToken
        /\ wraps' = [wraps EXCEPT ![w] = m_token]
    /\ UNCHANGED fvars
    /\ UNCHANGED ovars
    /\ UNCHANGED <<m_activeFlags, m_lastUsedFlag, m_token, owner, nTokens, cbs,
                   ids, stack, t2, issued, revoked>>

ZeroFlags == [i \in Slots |-> 0]
\* InvalidateCallbacks(): a fresh token, the registry zeroed, the cursor reset
InvalidateCallbacks ==
    /\ OwnerCall
    /\ nTokens < MaxTokens
    /\ m_token' = nTokens + 1
    /\ nTokens' = nTokens + 1
    /\ m_activeFlags' = ZeroFlags
    /\ m_lastUsedFlag' = 0
    /\ revoked' = [revoked EXCEPT !.invalidated =
                     @ \cup {k \in Cb : issued[k].made}
                       \cup {WrapFn(w) : w \in {v \in Wr : wraps[v] # NoToken}}]
    /\ UNCHANGED fvars
    /\ UNCHANGED ovars
    /\ UNCHANGED <<owner, cbs, ids, wraps, stack, t2, issued>>

\* the Callback objects that hold the stored function of callback k
Holders(k) == {c \in Cb : Exists(c) /\ cbs[c].fn = k}
\* history: callback k's object exists and nothing has cancelled it
Live(k) ==
    /\ issued[k].made
    /\ Holders(k) # {}
    /\ k \notin (revoked.byId \cup revoked.invalidated)

\* CancelCallback(id), id being the variable MakeCb(f, &id) of callback k wrote;
\* revoked.byId records the callbacks that were live when so cancelled
CancelCallback(k) ==
    /\ OwnerCall
    /\ ids[k] # NoId
    /\ LET index == GetFlagIndex(ids[k])
       IN  m_activeFlags' = [m_activeFlags EXCEPT ![index] = CancelFlag(@, ids[k])]
    /\ ids' = [ids EXCEPT ![k] = NoId]
    /\ revoked' = [revoked EXCEPT !.byId = IF Live(k) THEN @ \cup {k} ELSE @]
    /\ UNCHANGED fvars
    /\ UNCHANGED ovars
    /\ UNCHANGED <<m_lastUsedFlag, m_token, owner, nTokens, cbs, wraps, stack,
                   t2, issued>>

\* IsActive(id): the value it returns
IsActiveValue(callbackId) ==
    /\ callbackId # NoId
    /\ FlagActive(m_activeFlags[GetFlagIndex(callbackId)], callbackId)

\* IsActive(id): an id seen inactive is set to nullopt
IsActive(k) ==
    /\ OwnerCall
    /\ ids[k] # NoId
    /\ ~IsActiveValue(ids[k])
    /\ ids' = [ids EXCEPT ![k] = NoId]
    /\ UNCHANGED fvars
    /\ UNCHANGED ovars
    /\ UNCHANGED <<m_activeFlags, m_lastUsedFlag, m_token, owner, nTokens, cbs,
                   wraps, stack, t2, issued, revoked>>

\* ~Canceller() is entered
DtorBegin ==
    /\ OwnerCall
    /\ owner' = "spin"
    /\ UNCHANGED fvars
    /\ UNCHANGED ovars
    /\ UNCHANGED <<m_activeFlags, m_lastUsedFlag, m_token, nTokens, cbs, ids,
                   wraps, stack, t2, issued, revoked>>

\* while (m_token.use_count() > 1) ;   the loop is left
DtorSpinExit ==
    /\ owner = "spin"
    /\ ~(UseCount(m_token) > 1)
    /\ owner' = "exited"
    /\ UNCHANGED fvars
    /\ UNCHANGED ovars
    /\ UNCHANGED <<m_activeFlags, m_lastUsedFlag, m_token, nTokens, cbs, ids,
                   wraps, stack, t2, issued, revoked>>

\* a destructor that would leave the token referenced
KeepToken == m_token
\* ~shared_ptr of member m_token
ReleaseToken == NoToken
\* the members are destroyed: m_token gives up its reference
DtorRelease ==
    /\ owner = "exited"
    /\ owner' = "dead"
    /\ m_token' = ReleaseToken
    /\ UNCHANGED fvars
    /\ UNCHANGED ovars
    /\ UNCHANGED <<m_activeFlags, m_lastUsedFlag, nTokens, cbs, ids, wraps,
                   stack, t2, issued, revoked>>

(* ------------------- Callback operations, owner thread ----------------- *)
\* Callback::Invoke reaches m_callback(args...): `t` is held while it runs
Invoke(c) ==
    /\ ThreadRuns
    /\ Len(stack) < MaxDepth
    /\ Runs(c)
    /\ stack' = Append(stack, [cb |-> c, fn |-> cbs[c].fn, token |-> cbs[c].token])
    /\ UNCHANGED fvars
    /\ UNCHANGED ovars
    /\ UNCHANGED <<m_activeFlags, m_lastUsedFlag, m_token, owner, nTokens, cbs,
                   ids, wraps, t2, issued, revoked>>

\* the callable of Wrap reaches f(args...): `p` is held while it runs
InvokeWrap(w) ==
    /\ ThreadRuns
    /\ Len(stack) < MaxDepth
    /\ WrapRuns(w)
    /\ stack' = Append(stack, [cb |-> 0, fn |-> WrapFn(w), token |-> wraps[w]])
    /\ UNCHANGED fvars
    /\ UNCHANGED ovars
    /\ UNCHANGED <<m_activeFlags, m_lastUsedFlag, m_token, owner, nTokens, cbs,
                   ids, wraps, t2, issued, revoked>>

\* the innermost stored function returns; Invoke drops `t`
Return ==
    /\ ThreadRuns
    /\ stack # <<>>
    /\ stack' = SubSeq(stack, 1, Len(stack) - 1)
    /\ UNCHANGED fvars
    /\ UNCHANGED ovars
    /\ UNCHANGED <<m_activeFlags, m_lastUsedFlag, m_token, owner, nTokens, cbs,
                   ids, wraps, t2, issued, revoked>>

\* ~Callback()
DestroyCb(c) ==
    /\ ThreadRuns
    /\ Exists(c)
    /\ ~InUse(c)
    /\ m_activeFlags' = AfterDeactivate(c)
    /\ cbs' = [cbs EXCEPT ![c] = Destroyed]
    /\ UNCHANGED fvars
    /\ UNCHANGED ovars
    /\ UNCHANGED <<m_lastUsedFlag, m_token, owner, nTokens, ids, wraps, stack,
                   t2, issued, revoked>>

\* Callback(Callback && other): a new object d takes over c's members
MoveConstruct(c) ==
    /\ ThreadRuns
    /\ Exists(c)
    /\ ~InUse(c)
    /\ \E d \in FreshCb :
        cbs' = [cbs EXCEPT ![d] = cbs[c],
                           ![c] = [st |-> "live", token |-> NoToken, fn |-> 0,
                                   flagRef |-> NoFlag]]
    /\ UNCHANGED fvars
    /\ UNCHANGED ovars
    /\ UNCHANGED <<m_activeFlags, m_lastUsedFlag, m_token, owner, nTokens, ids,
                   wraps, stack, t2, issued, revoked>>

(* ---------------- Schedule(executor, cb, args) (callback.hpp) ---------- *)
\* the frame of the components other than the Canceller and the tasks
notY == <<fvars, kvars, svars, pvars, evars, rvars, qvars, uvars, memvars>>
\* the Callback objects that tasks hold
InTask == {d \in Cb : tasks[d] \in {"queued", "ran"}}

\* if (cb.Cancelled()) return;
ScheduleDrops(c) == Cancelled(c)

\* Schedule(executor, std::move(cb), args...): nothing if cb.Cancelled(), else
\* the executor gets one task whose closure holds a move-constructed
\* Callback d; the caller's object c is left moved-from
ScheduleCb(c) ==
    /\ ThreadRuns
    /\ Exists(c)
    /\ ~InUse(c)
    /\ tasks[c] = "none"
    /\ cbs[c].fn # 0
    /\ scheduled[cbs[c].fn] = "no"
    /\ \E drop \in ScheduleDrops(c) :
          IF drop
          THEN /\ scheduled' = [scheduled EXCEPT ![cbs[c].fn] = "dropped"]
               /\ UNCHANGED <<cbs, tasks>>
          ELSE \E d \in FreshCb :
                 /\ cbs' = [cbs EXCEPT ![d] = cbs[c],
                                       ![c] = [st |-> "live", token |-> NoToken,
                                               fn |-> 0, flagRef |-> NoFlag]]
                 /\ tasks' = [tasks EXCEPT ![d] = "queued"]
                 /\ scheduled' = [scheduled EXCEPT ![cbs[c].fn] = "submitted"]
    /\ UNCHANGED notY
    /\ UNCHANGED <<m_activeFlags, m_lastUsedFlag, m_token, owner, nTokens, ids,
                   wraps, stack, t2, issued, revoked>>

\* the executor runs the task: std::apply(cb, argTuple), that is
\* Callback::Invoke, which reaches m_callback(args...) or does nothing
RunTask(d) ==
    /\ ThreadRuns
    /\ tasks[d] = "queued"
    /\ Len(stack) < MaxDepth
    /\ tasks' = [tasks EXCEPT ![d] = "ran"]
    /\ stack' = IF Runs(d)
                THEN Append(stack, [cb |-> d, fn |-> cbs[d].fn, token |-> cbs[d].token])
                ELSE stack
    /\ UNCHANGED notY
    /\ UNCHANGED <<m_activeFlags, m_lastUsedFlag, m_token, owner, nTokens, cbs,
                   ids, wraps, t2, issued, revoked, scheduled>>

\* the task object is destroyed, run or not: ~Callback() of the captured cb
DestroyTask(d) ==
    /\ ThreadRuns
    /\ d \in InTask
    /\ ~InUse(d)
    /\ m_activeFlags' = AfterDeactivate(d)
    /\ cbs' = [cbs EXCEPT ![d] = Destroyed]
    /\ tasks' = [tasks EXCEPT ![d] = "gone"]
    /\ UNCHANGED notY
    /\ UNCHANGED <<m_lastUsedFlag, m_token, owner, nTokens, ids, wraps, stack,
                   t2, issued, revoked, scheduled>>

\* no task has been made
InitSched ==
    /\ tasks = [c \in Cb |-> "none"]
    /\ scheduled = [c \in Cb |-> "no"]

InitCanceller ==
    /\ m_activeFlags = [i \in Slots |-> 0]
    /\ m_lastUsedFlag = 0
    /\ m_token = 1
    /\ owner = "alive"
    /\ nTokens = 1
    /\ cbs = [c \in Cb |-> NoCallback]
    /\ ids = [c \in Cb |-> NoId]
    /\ wraps = [w \in Wr |-> NoToken]
    /\ stack = <<>>
    /\ t2 = [pc |-> "idle", cb |-> 0, fn |-> 0, token |-> NoToken]
    /\ issued = [c \in Cb |-> [made |-> FALSE, tracked |-> FALSE, id |-> NoId,
                               token |-> NoToken]]
    /\ revoked = [byId |-> {}, invalidated |-> {}]

Init == InitCanceller /\ InitFuture /\ InitComb /\ InitSync /\ InitPool /\ InitTimer
        /\ InitWorker /\ InitOwner /\ InitSlot /\ InitSched /\ InitMem

\* single-threaded use of one Canceller and its callbacks
Next ==
    \/ MakeCbTracked
    \/ MakeCbUntracked
    \/ Wrap
    \/ InvalidateCallbacks
    \/ \E k \in Cb : CancelCallback(k)
    \/ \E k \in Cb : IsActive(k)
    \/ DtorBegin
    \/ DtorSpinExit
    \/ DtorRelease
    \/ \E c \in Cb : Invoke(c)
    \/ \E w \in Wr : InvokeWrap(w)
    \/ Return
    \/ \E c \in Cb : DestroyCb(c)
    \/ \E c \in Cb : MoveConstruct(c)

Spec == Init /\ [][Next]_vars

\* the same without InvalidateCallbacks and Wrap: creations, invocations,
\* moves, destructions, cancellation by id
NextAlloc ==
    \/ MakeCbTracked
    \/ MakeCbUntracked
    \/ \E k \in Cb : CancelCallback(k)
    \/ \E k \in Cb : IsActive(k)
    \/ DtorBegin
    \/ DtorSpinExit
    \/ DtorRelease
    \/ \E c \in Cb : Invoke(c)
    \/ Return
    \/ \E c \in Cb : DestroyCb(c)
    \/ \E c \in Cb : MoveConstruct(c)

SpecAlloc == Init /\ [][NextAlloc]_vars

\* one promise, its futures and a queue executor, all on one thread
NextFuture ==
    \/ \E f \in Fut : GetFuture(f)
    \/ \E f \in Fut : Then(f)
    \/ \E f \in Fut : FutureCancel(f)
    \/ \E r \in Results : Finished(r)
    \/ Embed
    \/ DestroyPromise
    \/ \E r \in Results : RunProduce(r)
    \/ RunDeliver
    \/ DropTask

SpecFuture == Init /\ [][NextFuture]_vars

\* the same with the calls of Finished that end in an exception
NextFutureErr ==
    \/ NextFuture
    \/ \E r \in Results : FinishedThrows(r)

SpecFutureErr == Init /\ [][NextFutureErr]_vars

\* the completion task runs on an executor thread of its own, interleaved
\* with the thread that holds the future
NextFutureMT ==
    \/ \E f \in Fut : GetFuture(f)
    \/ \E f \in Fut : Then(f)
    \/ \E f \in Fut : FutureCancel(f)
    \/ \E r \in Results : Finished(r)
    \/ Embed
    \/ DestroyPromise
    \/ \E r \in Results : RunProduce(r)
    \/ ThunkCheck
    \/ ThunkCall
    \/ ThunkReturn

SpecFutureMT == Init /\ [][NextFutureMT]_vars

(* ------------------ Callback::Invoke on a second thread ---------------- *)
\* if (auto t = m_token.lock())   succeeded for callback c
T2Lock(c) ==
    /\ t2.pc = "idle"
    /\ Exists(c)
    /\ cbs[c].fn # 0
    /\ Lock(cbs[c].token)
    /\ t2' = [pc |-> "locked", cb |-> c, fn |-> cbs[c].fn, token |-> cbs[c].token]
    /\ UNCHANGED fvars
    /\ UNCHANGED ovars
    /\ UNCHANGED fvars
    /\ UNCHANGED ovars
    /\ UNCHANGED <<m_activeFlags, m_lastUsedFlag, m_token, owner, nTokens, cbs,
                   ids, wraps, stack, issued, revoked>>

T2Idle == [pc |-> "idle", cb |-> 0, fn |-> 0, token |-> NoToken]

\* bool cancelled = ...; if (!cancelled) m_callback(args...) is entered
T2Check ==
    /\ t2.pc = "locked"
    /\ \E cancelled \in FlagCancelled(t2.cb) :
        t2' = IF cancelled THEN T2Idle ELSE [t2 EXCEPT !.pc = "running"]
    /\ UNCHANGED fvars
    /\ UNCHANGED ovars
    /\ UNCHANGED fvars
    /\ UNCHANGED ovars
    /\ UNCHANGED <<m_activeFlags, m_lastUsedFlag, m_token, owner, nTokens, cbs,
                   ids, wraps, stack, issued, revoked>>

\* m_callback returns and `t` is dropped
T2Return ==
    /\ t2.pc = "running"
    /\ t2' = T2Idle
    /\ UNCHANGED fvars
    /\ UNCHANGED ovars
    /\ UNCHANGED fvars
    /\ UNCHANGED ovars
    /\ UNCHANGED <<m_activeFlags, m_lastUsedFlag, m_token, owner, nTokens, cbs,
                   ids, wraps, stack, issued, revoked>>

\* the owner thread makes, cancels and destroys; a second thread invokes
NextMT ==
    \/ MakeCbTracked
    \/ MakeCbUntracked
    \/ \E k \in Cb : CancelCallback(k)
    \/ DtorBegin
    \/ DtorSpinExit
    \/ DtorRelease
    \/ \E c \in Cb : T2Lock(c)
    \/ T2Check
    \/ T2Return

SpecMT == Init /\ [][NextMT]_vars

\* two promises, their futures combined by && or ||, one queue executor
NextComb ==
    \/ \E o \in {"and", "or"}, withCb \in BOOLEAN : Combine(o, withCb)
    \/ CombinedCancel
    \/ \E i \in Child : ChildEmbed(i)
    \/ \E i \in Child : ChildFinished(i)
    \/ \E i \in Child : ChildDestroy(i)
    \/ ChildRunProduce
    \/ ChildRunDeliver

SpecComb == Init /\ [][NextComb]_vars

\* the same with the completion tasks run by several executor threads
NextCombMT ==
    \/ \E o \in {"and", "or"}, withCb \in BOOLEAN : Combine(o, withCb)
    \/ CombinedCancel
    \/ \E i \in Child : ChildFinished(i)
    \/ \E i \in Child : ChildDestroy(i)
    \/ \E t \in Th : WorkerTake(t)
    \/ \E t \in Th : WorkerCheck(t)
    \/ \E t \in Th : WorkerHook(t)

SpecCombMT == Init /\ [][NextCombMT]_vars

\* one synchronizer and the callbacks it tracks, on one thread
NextSync ==
    \/ \E k \in {"all", "any"}, h \in Handle : MakeSync(k, h)
    \/ \E h \in Handle, i \in TrackedCb : Track(h, i)
    \/ \E i \in TrackedCb : InvokeTracked(i)
    \/ \E h \in Handle : DestroySync(h)

SpecSync == Init /\ [][NextSync]_vars

\* synchronizers that are also default-constructed, moved and move-assigned
NextSyncMove ==
    \/ NextSync
    \/ \E h \in Handle : DefaultSync(h)
    \/ \E h, g \in Handle : MoveSync(h, g)
    \/ \E h, g \in Handle : MoveAssignSync(h, g)
    \/ \E h \in Handle, i \in TrackedCb : TrackThrows(h, i)

SpecSyncMove == Init /\ [][NextSyncMove]_vars

\* a running pool, its worker threads and the client threads calling Execute
NextPool ==
    \/ \E c \in Client : ExecuteAdd(c)
    \/ \E c \in Client : ExecuteDecide(c)
    \/ \E w \in PoolThread : WorkerBegin(w)
    \/ \E w \in PoolThread : WorkerDequeue(w)
    \/ \E w \in PoolThread : WorkerDone(w)
    \/ \E w \in PoolThread : WorkerThrow(w)
    \/ \E w \in PoolThread : WorkerLinger(w)

SpecPool == Init /\ [][NextPool]_vars

\* every worker thread that can take a step eventually takes one, and every
\* task terminates; clients are free never to call Execute
RunFairness ==
    \A w \in PoolThread :
        /\ WF_vars(WorkerBegin(w))
        /\ WF_vars(WorkerDequeue(w))
        /\ WF_vars(WorkerDone(w) \/ WorkerThrow(w))

\* a pool that is never shut down, its threads scheduled fairly
SpecPoolRun == Init /\ [][NextPool]_vars /\ RunFairness

\* the pool from construction to the return of its destructor
NextPoolStop ==
    \/ NextPool
    \/ \E w \in PoolThread : WorkerExit(w)
    \/ DtorStop
    \/ DtorWake
    \/ DtorJoin

\* every thread that can take a step eventually takes one; clients are free
\* never to call Execute and the owner never to destroy the pool
PoolFairness ==
    /\ \A c \in Client : WF_vars(ExecuteDecide(c))
    /\ \A w \in PoolThread :
          /\ WF_vars(WorkerBegin(w))
          /\ WF_vars(WorkerDequeue(w))
          /\ WF_vars(WorkerDone(w) \/ WorkerThrow(w))
          /\ WF_vars(WorkerLinger(w))
          /\ WF_vars(WorkerExit(w))
    /\ WF_vars(DtorWake)
    /\ WF_vars(DtorJoin)

SpecPoolStop == Init /\ [][NextPoolStop]_vars /\ PoolFairness

\* a pool used through ExecuteIn / ExecuteAt only: its mandatory workers, its
\* timer thread and the injected clock, up to the moment its destructor stops it
NextTimer ==
    \/ \E k \in Timed, d \in 0 .. 1 : ExecuteTaskIn(k, d)
    \/ \E k \in Timed, when \in 0 .. MaxClock + 1 : ExecuteTaskAt(k, when)
    \/ ClockTick
    \/ TimerPoll
    \/ TimerHand
    \/ TimerClear
    \/ TimerStop
    \/ \E w \in PoolThread : WorkerBegin(w)
    \/ \E w \in PoolThread : WorkerDequeue(w)
    \/ \E w \in PoolThread : WorkerDone(w)
    \/ DtorStop

TimerFairness ==
    /\ WF_vars(TimerPoll)
    /\ WF_vars(TimerHand)
    /\ WF_vars(TimerClear)
    /\ \A w \in 1 .. MIN_SIZE :
          /\ WF_vars(WorkerBegin(w))
          /\ WF_vars(WorkerDequeue(w))
          /\ WF_vars(WorkerDone(w))

SpecTimer == Init /\ [][NextTimer]_vars /\ TimerFairness

\* a Worker and the threads that schedule tasks on it
NextWorker ==
    \/ \E c \in Caller, later \in BOOLEAN : WorkerSchedule(c, later)
    \/ \E c \in Caller, later \in BOOLEAN : WorkerTrySchedule(c, later)
    \/ \E c \in Caller : SpuriousWakeup(c)
    \/ \E c \in Caller : ScheduleRecheck(c)
    \/ DelayElapses
    \/ RunTake
    \/ RunFinish

\* the worker thread and the unblocked callers run, and time passes
WorkerFairness ==
    /\ WF_vars(RunTake)
    /\ WF_vars(RunFinish)
    /\ WF_vars(DelayElapses)
    /\ \A c \in Caller : WF_vars(ScheduleRecheck(c))

SpecWorker == Init /\ [][NextWorker]_vars /\ WorkerFairness

\* one owner (v3 CallbackOwner or v2 CallbackManager), its callbacks, and the
\* threads that invoke and destroy them
NextOwner ==
    \/ NewCallbackOwner
    \/ NewCallbackManager
    \/ \E i \in OwnerCb : OwnerMakeCb(i)
    \/ \E i, j \in OwnerCb : CopyCb(i, j)
    \/ \E i \in OwnerCb : InvokeCb(i)
    \/ \E i \in OwnerCb : RemoveSlaveFetch(i)
    \/ \E i \in OwnerCb : RemoveSlaveFinish(i)
    \/ DeactivateCallbacks
    \/ DestroyOwner
    \/ RemoveMasterFinish

SpecOwner == Init /\ [][NextOwner]_vars

\* one Canceller on one thread: callbacks are made, handed to Schedule,
\* cancelled by id or by InvalidateCallbacks, the Canceller may be destroyed,
\* and the executor runs and destroys the tasks when it likes
NextSched ==
    \/ MakeCbTracked
    \/ MakeCbUntracked
    \/ InvalidateCallbacks
    \/ \E k \in Cb : CancelCallback(k)
    \/ DtorBegin
    \/ DtorSpinExit
    \/ DtorRelease
    \/ \E c \in Cb : ScheduleCb(c)
    \/ \E d \in Cb : RunTask(d)
    \/ \E d \in Cb : DestroyTask(d)
    \/ \E c \in Cb : tasks[c] = "none" /\ Invoke(c)
    \/ Return
    \/ \E c \in Cb : tasks[c] = "none" /\ DestroyCb(c)

SpecSched == Init /\ [][NextSched]_vars

\* one thread using one mem::Pool and the pointers it hands out
NextMem ==
    \/ \E n \in 1 .. MaxBlocks : NewPool(n)
    \/ \E k \in Class, shared \in BOOLEAN : Make(k, shared)
    \/ \E k \in Class : MakeThrows(k)
    \/ \E p \in Ptr : CopyShared(p)
    \/ \E p \in Ptr : ResetPtr(p)
    \/ ShrinkToFit
    \/ \E n \in 1 .. MaxBlocks : Resize(n)

SpecMem == Init /\ [][NextMem]_vars

\* one slot of the registry reused by successive callbacks and one
\* CallbackId issued for it
NextSlot ==
    \/ \E keep \in BOOLEAN : SlotRegister(keep)
    \/ SlotRelease
    \/ OccupantCancel
    \/ SlotCancelCallback
    \/ SlotIsActive

SpecSlot == Init /\ [][NextSlot]_vars

(* ============================ the claims =============================== *)
NeverInvalidated == nTokens = 1

\* C1: single-threaded use, no InvalidateCallbacks in the history: once the
\* Canceller has been destroyed, every Callback it made (moved or not) reports
\* Cancelled() == true and Invoke does not call the stored function.
C1_DeadOwnerCancelsAll ==
    (owner = "dead" /\ NeverInvalidated) =>
        \A c \in Cb : Exists(c) => (Cancelled(c) = {TRUE} /\ ~Runs(c))

\* a destroyed Canceller that leaves a tracked callback, moved once, behind
C1_Witness ==
    /\ owner = "dead"
    /\ NeverInvalidated
    /\ \E c \in Cb : Exists(c) /\ cbs[c].fn # 0 /\ cbs[c].fn # c
                     /\ cbs[c].flagRef # NoFlag

\* C2: with Invoke on another thread than ~Canceller: once ~Canceller has
\* finished, no stored function of one of its callbacks is executing.
C2_NoFunctionRunsAfterDtor == owner = "dead" => t2.pc # "running"

\* C3: ~Canceller entered from inside a running stored function of one of its
\* own callbacks leaves its spin loop (nothing else runs on that thread, so the
\* loop ends only if its condition is already false).
C3_DtorInsideCallbackReturns ==
    (owner = "spin" /\ stack # <<>>) => ENABLED DtorSpinExit

\* C4: after InvalidateCallbacks() has returned, every Callback and every
\* wrapped callable issued before the call is cancelled (Cancelled() is true,
\* invoking it does not call the function); those made after it run.
C4_InvalidateCancelsIssued ==
    owner = "alive" =>
        /\ \A c \in Cb :
            (Exists(c) /\ cbs[c].fn \in revoked.invalidated) =>
                (Cancelled(c) = {TRUE} /\ ~Runs(c))
        /\ \A w \in Wr : WrapFn(w) \in revoked.invalidated => ~WrapRuns(w)
        /\ \A c \in Cb :
            (Exists(c) /\ cbs[c].fn # 0 /\ issued[cbs[c].fn].token = m_token
             /\ cbs[c].fn \notin revoked.byId) => Runs(c)

\* C5: for every id from MakeCb(f, &id): IsActive(id) is true exactly if the
\* callback made with it still exists and has not been cancelled by id or by
\* InvalidateCallbacks.
C5_IsActiveIffLive ==
    owner = "alive" =>
        \A k \in Cb : issued[k].tracked => (IsActiveValue(ids[k]) <=> Live(k))

\* C6: CancelCallback(id) on the id of a live tracked callback: that callback
\* never calls its function again and id is empty; the call changes no other
\* callback: the others that ran their function when invoked, or were
\* IsActive, still do.
C6_CancelledStaysSilent ==
    owner = "alive" =>
        \A k \in revoked.byId : ids[k] = NoId /\ \A c \in Holders(k) : ~Runs(c)

C6_CancelFrame ==
    \A k \in Cb :
        (CancelCallback(k) /\ Live(k)) =>
            \A j \in Cb \ {k} :
                /\ \A c \in Cb : (cbs[c].fn = j /\ Runs(c)) => Runs(c)'
                /\ (Live(j) /\ IsActiveValue(ids[j])) => IsActiveValue(ids[j])'

C6_CancelExactlyOne == [](C6_CancelledStaysSilent) /\ [][C6_CancelFrame]_vars

\* C7: without InvalidateCallbacks in the history: at most N tracked callbacks
\* exist at a time, MakeCb(f, &id) throws exactly when N exist, and the ids of
\* the existing tracked callbacks differ pairwise.
ExistingTracked == {k \in Cb : issued[k].tracked /\ Holders(k) # {}}

C7_CapacityExactlyN ==
    (owner = "alive" /\ NeverInvalidated) =>
        /\ Cardinality(ExistingTracked) <= N
        /\ RegisterThrows <=> (Cardinality(ExistingTracked) = N)
        /\ \A j, k \in ExistingTracked : j # k => issued[j].id # issued[k].id

\* the registry is full again after a tracked callback had been destroyed
C7_Witness ==
    /\ owner = "alive"
    /\ NeverInvalidated
    /\ RegisterThrows
    /\ \E k \in Cb : issued[k].tracked /\ Holders(k) = {}


\* C8: with a callback installed by Then and its future kept alive,
\* Finished(r) (called directly or by the producer task) submits exactly one
\* task and does not call cb; only running a completion task calls a
\* callback, running that task calls cb once with r, and no callback is ever
\* called twice.
C8_FinishedStep ==
    \A r \in Results :
        (/\ Finished(r) \/ RunProduce(r)
         /\ hasFuture
         /\ m_onFinished # 0
         /\ futures[m_onFinished] = "held")
        => /\ submitted' = submitted + 1
           /\ queue' # <<>>
           /\ queue'[Len(queue')] = DeliverTask(m_onFinished, r)
           /\ log' = log
C8_RunStep ==
    /\ log' # log => RunDeliver
    /\ (RunDeliver /\ Head(queue).val # None /\ futures[Head(queue).cb] = "held")
       => log' = Append(log, [cb |-> Head(queue).cb, val |-> Head(queue).val,
                              held |-> TRUE])
C8_CalledAtMostOnce ==
    \A i, j \in DOMAIN log : i # j => log[i].cb # log[j].cb
C8_OneTaskOneCall ==
    [](C8_CalledAtMostOnce) /\ [][C8_FinishedStep /\ C8_RunStep]_vars
\* the producer task finished with result 2, the completion task ran and
\* called the callback of the future that is still held
C8_Witness ==
    /\ log = <<[cb |-> 1, val |-> 2, held |-> TRUE]>>
    /\ futures[1] = "held"
    /\ submitted = 1
    /\ queue = <<>>

\* C9: on a single thread, a callback whose future was cancelled or destroyed
\* before the completion task ran is never invoked (every invocation found
\* the future that installed the callback still held).
C9_CancelledNeverCalled == \A i \in DOMAIN log : log[i].held

\* C10: with the completion task on its own thread and a single future ever
\* obtained from the promise, once Cancel has returned the callback is not
\* executing and is not invoked any more.
OnlyFirstFuture == \A f \in Fut : f > 1 => futures[f] = "none"
C10_NoCallOnceCancelReturned ==
    OnlyFirstFuture =>
        /\ \A i \in DOMAIN log : log[i].held
        /\ exec = "running" => futures[Head(queue).cb] = "held"


\* C11: with a callback installed and its future held, destroying a promise
\* on which Finished was never called (the user's promise, or the promise
\* inside a task dropped unrun) submits exactly one task and calls nothing;
\* running that task calls cb once with None; destroying a finished promise
\* submits nothing; a promise never submits more than one task in its life.
PromiseDies == DestroyPromise \/ (DropTask /\ Head(queue).kind = "produce")
C11_TerminateStep ==
    /\ (/\ PromiseDies
        /\ active
        /\ hasFuture
        /\ m_onFinished # 0
        /\ futures[m_onFinished] = "held")
       => /\ submitted' = submitted + 1
          /\ queue' # <<>>
          /\ queue'[Len(queue')] = DeliverTask(m_onFinished, None)
          /\ log' = log
    /\ (DestroyPromise /\ ~active)
       => (submitted' = submitted /\ queue' = queue /\ log' = log)
    /\ (RunDeliver /\ Head(queue).val = None /\ futures[Head(queue).cb] = "held")
       => log' = Append(log, [cb |-> Head(queue).cb, val |-> None, held |-> TRUE])
C11_DeadPromiseOneNone ==
    [](submitted <= 1 /\ Len(log) <= submitted) /\ [][C11_TerminateStep]_vars
\* the promise died unfinished and the task it submitted has called cb(None)
C11_Witness ==
    /\ promise = "dead"
    /\ log = <<[cb |-> 1, val |-> None, held |-> TRUE]>>
    /\ futures[1] = "held"
    /\ submitted = 1
    /\ queue = <<>>

\* C12: f.IsActive() is true when GetFuture returns on an unfinished promise;
\* it stays true over every step but the execution of Finished (directly or
\* by the producer task), the cancellation of f and the destruction of the
\* promise (enqueuing the producer task changes nothing); each of these makes
\* it false, and once false it never becomes true again.
FinishedExecuted == \E r \in Results : Finished(r) \/ (RunProduce(r) /\ hasFuture)
C12_ActiveStep ==
    /\ (active' # active) => (~active' /\ (FinishedExecuted \/ PromiseDies \/ \E r \in Results : RunProduce(r)))
    /\ \A f \in Fut :
        /\ (GetFuture(f) /\ active) => FutureIsActive(f)'
        /\ (FutureIsActive(f) /\ ~FutureIsActive(f)')
           => (FinishedExecuted \/ PromiseDies \/ FutureCancel(f))
        /\ (futures[f] = "held" /\ (FinishedExecuted \/ PromiseDies \/ FutureCancel(f)))
           => ~FutureIsActive(f)'
        /\ (futures[f] # "none" /\ ~FutureIsActive(f)) => ~FutureIsActive(f)'
        /\ Embed => (FutureIsActive(f)' <=> FutureIsActive(f))
C12_ActiveUntilDone ==
    [](promise = "dead" => \A f \in Fut : ~FutureIsActive(f)) /\ [][C12_ActiveStep]_vars
\* the promise is gone without a task submitted: the held future is inactive
C12_Witness ==
    /\ futures[1] = "held"
    /\ ~FutureIsActive(1)
    /\ promise = "dead"
    /\ submitted = 0
    /\ queue = <<>>


\* C13: for f = (f1 && f2).Then(cb) kept alive: while a child promise has
\* not finished, cb has not been invoked and f.IsActive() is true; when both
\* have finished and every submitted task has run, cb has been invoked (with
\* Some(Empty) only) and f.IsActive() is false.
AndWithCallback == op = "and" /\ cCb /\ cFuture = "held"
HasFinished(i) == chPromise[i] = "finished"
HasCompleted(i) == chPromise[i] \in {"finished", "died", "skipped"}
C14_AndFiresExactlyOnce ==
    AndWithCallback =>
        /\ Len(klog) <= 1
        /\ (HasFinished(1) /\ HasFinished(2) /\ kq = <<>>) => Len(klog) = 1

\* C15: for f = (f1 || f2).Then(cb) kept alive: running the completion task
\* of the first child to finish invokes cb with Some(Empty) and makes f
\* inactive; once cb has been invoked the other child's promise IsCancelled();
\* a producer task whose promise IsCancelled() does not run its body.
OrWithCallback == op = "or" /\ cCb /\ cFuture = "held"
FirstFinishedTask ==
    /\ kq # <<>>
    /\ Head(kq) = ChildDeliver(Head(kq).child, "some")
    /\ \/ ~HasFinished(Other(Head(kq).child))
       \/ \E n \in 2 .. Len(kq) : kq[n] = ChildDeliver(Other(Head(kq).child), "some")
OrFiredCancelsOther ==
    (OrWithCallback /\ klog # <<>>)
    => (~CombinedIsActive /\ ChildIsCancelled(Other(klog[1].by)))
CancelledBodySkipped ==
    (ChildRunProduce /\ ChildIsCancelled(Head(kq).child))
    => (chPromise'[Head(kq).child] = "skipped" /\ kq' = Tail(kq))
C15_FirstFinishedStep ==
    /\ (OrWithCallback /\ FirstFinishedTask /\ ChildRunDeliver)
       => /\ klog' = Append(klog, [by |-> Head(kq).child, val |-> "SomeEmpty"])
          /\ ~CombinedIsActive'
          /\ ~chHasFuture'[Other(Head(kq).child)]
    /\ CancelledBodySkipped
C15_FirstCompletedStep ==
    /\ (OrWithCallback /\ klog = <<>> /\ ChildRunDeliver)
       => /\ klog' = <<[by |-> Head(kq).child, val |-> "SomeEmpty"]>>
          /\ ~CombinedIsActive'
          /\ ~chHasFuture'[Other(Head(kq).child)]
    /\ CancelledBodySkipped
C16_SecondTaskSilent ==
    (OrWithCallback /\ klog # <<>> /\ ChildRunDeliver)
    => (~chHasFuture[Head(kq).child] /\ klog' = klog)
C16_OrOnceInv ==
    OrWithCallback =>
        /\ Len(klog) <= 1
        /\ (HasCompleted(1) /\ HasCompleted(2) /\ kq = <<>>) => Len(klog) = 1
C17_OrAtMostOnceConcurrent == (op = "or" /\ cCb) => Len(klog) <= 1


\* C18: an OnAllCompleted listener has been invoked once if the synchronizer
\* is destroyed and every tracked callback (there may be none) has been
\* invoked, and has not been invoked otherwise: it fires at the later of the
\* two events, never before, and never again on repeated invocations.
C18_AllListenerOnceWhenBoth ==
    sKind = "all" =>
        \A s \in Made :
            listenerCalls[s] = IF Dropped(s) /\ \A i \in TrackedOn(s) : HasFired(i)
                               THEN 1 ELSE 0
\* the listener has fired, and a tracked callback was invoked a second time
C18_Witness ==
    /\ sKind = "all"
    /\ listenerCalls[1] = 1
    /\ Cardinality(TrackedOn(1)) >= 2
    /\ \E i \in TrackedOn(1) : sRuns[i] = MaxInvoke

\* C19: an OnAnyCompleted listener has been invoked once if the synchronizer
\* is destroyed and at least one tracked callback has been invoked, and has
\* not been invoked otherwise: at most once, at the later of the two events.
C19_AnyListenerOnceWhenBoth ==
    sKind = "any" =>
        \A s \in Made :
            listenerCalls[s] = IF Dropped(s) /\ \E i \in TrackedOn(s) : HasFired(i)
                               THEN 1 ELSE 0
\* the listener has fired once although every tracked callback was invoked
C19_Witness ==
    /\ sKind = "any"
    /\ listenerCalls[1] = 1
    /\ Cardinality(TrackedOn(1)) >= 2
    /\ \A i \in TrackedOn(1) : HasFired(i)


\* C20: at every moment the number of live pool worker threads, and the
\* counter worker_count, is at most MAX_SIZE.
C20_WorkerCountAtMostMax ==
    /\ m_workerCount <= MAX_SIZE
    /\ Cardinality(LiveWorkers) <= MAX_SIZE


\* C21: once the destructor of a pool with JOIN_THREADS has set stopped, the
\* destructor eventually returns with worker_count = 0, whatever the
\* interleaving of its wake-task loop with the workers.
C21_DestructorReturns ==
    (dtor.pc = "wake") ~> (dtor.pc = "returned" /\ m_workerCount = 0)


Mandatory == {w \in PoolThread : wk[w].kind = "mandatory"}
Optional == {w \in PoolThread : wk[w].kind = "optional"}
\* C22: in a running pool no mandatory worker leaves, and once submissions
\* have ceased and the running tasks are done every optional worker has
\* lingered out and worker_count is MIN_SIZE for good (until shutdown).
C22_ShrinksToMinSize ==
    /\ [](~m_stopped => \A w \in Mandatory : wk[w].st \notin {"leaving", "exited"})
    /\ <>[](\/ m_stopped
            \/ /\ m_workerCount = MIN_SIZE
               /\ \A w \in Optional : wk[w].st = "exited")
\* an optional worker was started for a task, the task is done and the
\* worker has lingered out of a pool that is still running
C22_Witness ==
    /\ ~m_stopped
    /\ executed > 0 /\ pq = 0 /\ m_busyCount = 0
    /\ \E w \in Optional : wk[w].st = "exited"
    /\ m_workerCount = MIN_SIZE


Busy == {w \in PoolThread : wk[w].st = "busy"}
\* a step in which a task ends by throwing
TaskThrows == thrown' = thrown + 1
\* C23: with CATCH_EXCEPTIONS every throwing task gives exactly one logger
\* call, the worker that ran it stays in the pool (worker_count unchanged,
\* busy_count counts exactly the workers inside a task, so it is back at its
\* value once the task is over, and the worker waits for the next task), and
\* after a throw a running pool still runs every task in its queue to the end.
C23_ThrowLoggedOnceWorkerSurvives ==
    /\ [](loglines = thrown /\ m_busyCount = Cardinality(Busy))
    /\ [][TaskThrows =>
            /\ loglines' = loglines + 1
            /\ m_workerCount' = m_workerCount
            /\ m_busyCount' = m_busyCount - 1
            /\ \E w \in Busy : /\ wk'[w].st = IF m_stopped THEN "leaving" ELSE "waiting"
                               /\ \A v \in PoolThread \ {w} : wk'[v] = wk[v]]_vars
    /\ (thrown > 0 /\ ~m_stopped) ~> (m_stopped \/ (pq = 0 /\ m_busyCount = 0))
\* one worker alone has run two tasks, one of which threw and was logged, and
\* it is waiting for more in a running pool
C23_Witness ==
    /\ ~m_stopped
    /\ thrown = 1 /\ loglines = 1
    /\ executed = 2 /\ pq = 0
    /\ \E w \in PoolThread :
          /\ wk[w].st = "waiting"
          /\ \A v \in PoolThread \ {w} : wk[v].st \in {"none", "spawned"}
    /\ m_workerCount = 1 /\ m_busyCount = 0


\* the timed tasks whose deadline the clock has reached
Due == {k \in Timed : deadline[k] # NoDeadline /\ deadline[k] <= now}
\* the timed tasks still in m_pending
Pending == {p.id : p \in m_pending}
\* a poll of the timer thread that reads the clock
Polls == tpc = "sleep" /\ tpc' = "run"
\* C24: a task scheduled with deadline D is not added to the worker queue
\* while the clock reads less than D; it is added at most once, every poll that
\* reads the clock takes every pending task that is due, the timer thread only
\* queues the task (a worker runs it), and in a pool that is not shut down a due
\* task is queued and the queue is then worked off.
C24_TimedTaskHandedOnceWhenDue ==
    /\ [](\A k \in Timed : handed[k] <= 1 /\ (handed[k] = 1 => k \in Due))
    /\ [][\A k \in Timed : handed'[k] # handed[k] =>
            /\ k \in Due
            /\ pq' = pq + 1
            /\ UNCHANGED <<wk, m_busyCount, m_workerCount>>]_vars
    /\ [][Polls => \A k \in Pending \cap Due :
                      /\ k \notin {p.id : p \in m_pending'}
                      /\ \E n \in 1 .. Len(ts') : ts'[n] = k]_vars
    /\ (Due # {}) ~> (m_stopped \/ \A k \in Due : handed[k] = 1)
    /\ (\E k \in Timed : handed[k] = 1)
          ~> (m_stopped \/ (pq = 0 /\ m_busyCount = 0))
\* a task scheduled for a later clock reading was queued once the clock
\* had reached it and a worker of the running pool has run it
C24_Witness ==
    /\ ~m_stopped
    /\ \E k \in Timed : /\ deadline[k] = MaxClock
                        /\ handed[k] = 1
    /\ now = MaxClock
    /\ pq = 0 /\ m_busyCount = 0 /\ tpc = "sleep"


\* a call of Finished on the promise the user holds
FinishedCalled == \E r \in Results : Finished(r) \/ FinishedThrows(r)
\* C25: a call of Finished on a promise already finished throws, submits no
\* task and leaves the shared state as it was; `active` never goes back to
\* true, and a promise submits at most one completion task in its life.
C25_SecondFinishedThrows ==
    /\ [](submitted <= 1)
    /\ [][active' => active]_vars
    /\ [][(FinishedCalled /\ ~active)
            => /\ asyncErrors' = asyncErrors + 1
               /\ UNCHANGED fvars]_vars
    /\ [][asyncErrors' # asyncErrors => (~active /\ FinishedCalled)]_vars
\* Finished has submitted its task and a second call has been rejected
C25_Witness ==
    /\ promise = "user"
    /\ ~active
    /\ submitted = 1
    /\ asyncErrors = 1


\* the synchronizer objects that point to State s
Owners(s) == {h \in Handle : m_state[h] = s}
\* the State objects as they are, and the tracked callbacks
stateVars == <<stateAlive, trackedCount, firedCount, listenerCalls>>
cbVars == <<wstate, wref, sRuns>>
\* a call of Track, accepted or rejected
TrackCalled(h, i) == Track(h, i) \/ TrackThrows(h, i)
C26_MoveStep ==
    /\ (sObj' # sObj \/ m_state' # m_state) =>
          \A h \in Handle :
             /\ \A g \in Handle :
                   /\ MoveSync(h, g) =>
                         /\ m_state'[g] = m_state[h] /\ m_state'[h] = NullState
                         /\ UNCHANGED <<stateVars, cbVars>>
                   /\ (MoveAssignSync(h, g) /\ m_state[h] = NullState) =>
                         /\ m_state'[h] = m_state[g] /\ m_state'[g] = NullState
                         /\ UNCHANGED <<stateVars, cbVars>>
             /\ (DestroySync(h) /\ m_state[h] = NullState) =>
                   UNCHANGED <<stateVars, cbVars>>
             /\ (DestroySync(h) /\ m_state[h] # NullState) =>
                   trackedCount'[m_state[h]] = trackedCount[m_state[h]] - ATTACHED
    /\ (syncErrors' # syncErrors \/ wref' # wref) =>
          \A h \in Handle, i \in FreshTracked :
             /\ (TrackCalled(h, i) /\ m_state[h] = NullState) =>
                   /\ syncErrors' = syncErrors + 1
                   /\ UNCHANGED <<stateVars, cbVars>>
             /\ (TrackCalled(h, i) /\ m_state[h] # NullState) =>
                   /\ syncErrors' = syncErrors
                   /\ wstate'[i] = "armed" /\ wref'[i] = m_state[h]
                   /\ trackedCount'[m_state[h]] = trackedCount[m_state[h]] + 1
\* C26: a move hands the State over and leaves the source with nullptr, so a
\* State has at most one owner and is attached exactly while it has one: the
\* destruction of the moved-to object is the drop and that of the moved-from
\* object changes nothing; Track on an object without State throws and
\* leaves the callback as it was; Track on an object that was given a State by
\* move assignment succeeds.
C26_MoveTransfersState ==
    /\ [](\A s \in Made : /\ Cardinality(Owners(s)) <= 1
                          /\ (Owners(s) # {}) = (trackedCount[s] >= ATTACHED)
                          /\ (Owners(s) # {}) => stateAlive[s])
    /\ [][C26_MoveStep]_vars
\* the first synchronizer object now holds the second State with a callback
\* tracked on it, the first State has been dropped, the second object is
\* alive without State and a Track on an object without State has thrown
C26_Witness ==
    /\ syncErrors = 1
    /\ Dropped(1)
    /\ m_state[1] = 2
    /\ sObj[2] = "alive" /\ m_state[2] = NullState
    /\ \E i \in TrackedCb : wref[i] = 2 /\ wstate[i] = "armed"


\* a step that adds an entry to m_tasks
Inserts == Size' = Size + 1
C27_CapacityStep ==
    \A c \in Caller :
       /\ (\E later \in BOOLEAN : WorkerTrySchedule(c, later)) =>
             IF Size = Capacity
             THEN tryResult'[c] = "false" /\ m_tasks' = m_tasks
             ELSE tryResult'[c] = "true" /\ Inserts
       /\ (\E later \in BOOLEAN : WorkerSchedule(c, later)) =>
             IF Size < Capacity
             THEN Inserts /\ caller'[c].pc = "idle"
             ELSE m_tasks' = m_tasks /\ caller'[c].pc = "blocked"
       /\ (caller[c].pc = "blocked" /\ caller'[c].pc = "idle") =>
             Size < Capacity /\ Inserts
       /\ ScheduleRecheck(c) =>
             IF Size < Capacity
             THEN Inserts /\ caller'[c].pc = "idle"
             ELSE m_tasks' = m_tasks /\ caller'[c].pc = "blocked"
\* C27: m_tasks never holds more than capacity entries; TrySchedule returns
\* false and changes nothing exactly when capacity entries are pending and
\* otherwise inserts and returns true; Schedule inserts at once when there is
\* room, otherwise its caller stays blocked, inserts nothing while blocked,
\* leaves the wait only with fewer than capacity entries pending and by
\* inserting its task, and does leave it.
C27_WorkerRespectsCapacity ==
    /\ [](Size <= Capacity)
    /\ [][C27_CapacityStep]_vars
    /\ \A c \in Caller : (caller[c].pc = "blocked") ~> (caller[c].pc = "idle")
\* the Worker is full, one caller is blocked in Schedule and the other has
\* just been refused by TrySchedule
C27_Witness ==
    /\ Size = Capacity
    /\ \E c, d \in Caller : /\ caller[c].pc = "blocked"
                            /\ tryResult[d] = "false"

\* the callback's token is the one the live owner holds now
Current(i) == mgr.pc = "alive" /\ slot[i].token = mgr.handle
\* the callback objects that exist and were made from the owner's current token
FromCurrentToken == {i \in OwnerCb : slot[i].st = "live" /\ slot[i].token = mgr.handle}

C28_InvokeStep ==
    \A i \in OwnerCb :
        InvokeCb(i) => slot'[i].ran = IF Current(i) THEN "called" ELSE "skipped"

\* C28: for the v3 CallbackOwner, an invocation of a callback made by Cb calls
\* the function exactly when the owner is alive and the callback's token is
\* the owner's current one: callbacks issued before the owner's destruction
\* or before DeactivateCallbacks() do nothing, callbacks made after
\* DeactivateCallbacks() run; and HasPendingCallbacks() is true exactly while
\* a callback made from the current token exists.
C28_OwnerCallbacksFollowToken ==
    /\ [][lib = "v3" => C28_InvokeStep]_vars
    /\ []((lib = "v3" /\ mgr.pc = "alive") =>
             (HasPendingCallbacks <=> FromCurrentToken # {}))

\* DeactivateCallbacks() has returned; a callback issued before it did
\* nothing, one made after it called its function, and both still exist
C28_Witness ==
    /\ lib = "v3"
    /\ mgr.pc = "alive"
    /\ HasPendingCallbacks
    /\ \E i, j \in OwnerCb :
          /\ slot[i].st = "live" /\ slot[i].token # mgr.handle
          /\ slot[i].ran = "skipped"
          /\ slot[j].st = "live" /\ slot[j].token = mgr.handle
          /\ slot[j].ran = "called"

\* the master and the slaves that reference counter k: the owner whose
\* m_handle it is (or is about to be), and the callbacks that exist with it
MasterOf(k) ==
    \/ mgr.pc = "alive" /\ mgr.handle = k
    \/ mgr.pc = "deactivating" /\ mgr.next = k
SlavesOf(k) == {i \in OwnerCb : slot[i].st = "live" /\ slot[i].token = k}
Referenced(k) == MasterOf(k) \/ SlavesOf(k) # {}
\* the removals of a reference to k that are between their atomic
\* read-modify-write and their test, and will run `delete this`
DeletingSlaves(k) ==
    {i \in OwnerCb : /\ slot[i].st = "removing" /\ slot[i].token = k
                     /\ SlaveDeletes(slot[i].count)}
MasterDeleting(k) ==
    /\ mgr.pc \in {"dying", "deactivating"} /\ mgr.handle = k
    /\ MasterDeletes(mgr.state)
NumDeleting(k) == Cardinality(DeletingSlaves(k)) + (IF MasterDeleting(k) THEN 1 ELSE 0)

\* C29: for every interleaving of RemoveMaster / RemoveManager and
\* RemoveSlave / RemoveCallback on different threads, a counter is deleted
\* at most once, is never deleted (nor about to be) while a master or a
\* slave references it, and once its last reference is removed it is
\* deleted by that very removal.
C29_CounterDeletedOnceByLastRemoval ==
    \A k \in RefCounterId :
        /\ rcDeletes[k] <= 1
        /\ rcLife[k] = "deleted" => rcDeletes[k] = 1 /\ ~Referenced(k)
        /\ (rcLife[k] = "live" /\ Referenced(k)) => NumDeleting(k) = 0
        /\ (rcLife[k] = "live" /\ ~Referenced(k)) => NumDeleting(k) = 1

\* the master's and the last slave's removal overlapped: the slave's
\* fetch_sub came after the master's fetch_and and its thread has deleted the
\* counter while the master's thread is still before its test
C29_Witness ==
    \E k \in RefCounterId :
        /\ rcLife[k] = "deleted" /\ rcDeletes[k] = 1
        /\ mgr.pc = "dying" /\ mgr.handle = k
        /\ \E i \in OwnerCb : slot[i].st = "gone" /\ slot[i].token = k

\* the slot has been registered anew 1 .. 63 times since the id was issued
Stale == Held /\ reuse.n \in 1 .. MASK_ID

C30_StaleStep ==
    Stale =>
       /\ SlotIsActive => /\ reuse'.last = "inactive"
                          /\ reuse'.id = NoId
                          /\ reuse'.flag = reuse.flag
       /\ SlotCancelCallback => /\ reuse'.flag = reuse.flag
                                /\ reuse'.id = NoId

\* C30: a CallbackId whose slot has been activated again 1 to 63 times since
\* it was issued, with no InvalidateCallbacks in between, is harmless:
\* IsActive returns false for it, CancelCallback with it leaves the slot's
\* byte as it is (the occupant's cancelled bit is not set, the occupant stays
\* alive), and both calls set the id to nullopt.
C30_StaleIdHarmless ==
    /\ [][C30_StaleStep]_vars
    /\ [](Stale => ~FlagActive(reuse.flag, reuse.id))

\* CancelCallback was called with an id that was 63 registrations old, and
\* the slot's occupant is alive and not cancelled
C30_Witness ==
    /\ reuse.n = MASK_ID
    /\ reuse.last = "cancel"
    /\ reuse.id = NoId
    /\ IsAlive(reuse.flag) /\ ~IsCancelled(reuse.flag)

\* the combined future has been cancelled or destroyed
CombinedCancelled == cFuture = "cancelled"

C31_CancelStep ==
    /\ CombinedCancel =>
          /\ ~cHasFuture'
          /\ \A i \in Child : cancelRuns'[i] =
                                cancelRuns[i] + (IF chCanceller[i] THEN 1 ELSE 0)
    /\ CombinedCancelled =>
          /\ klog' = klog
          /\ chCalls' = chCalls
          /\ cancelRuns' = cancelRuns

\* C31: cancelling or destroying the future of && or || clears hasFuture on
\* the combined state and on both children and runs each child's canceller
\* once; from then on, whatever the promises do and whichever tasks are run,
\* no child callback and no combined callback is invoked, no canceller runs
\* again, and both child promises report IsCancelled().
C31_CombinedCancelSilencesAll ==
    /\ [][C31_CancelStep]_vars
    /\ [](CombinedCancelled =>
             /\ ~cHasFuture
             /\ \A i \in Child : ChildIsCancelled(i))

\* the future, its callback set, was cancelled; both children had a callback
\* and a canceller, each canceller ran once, both promises are done, the
\* queue is empty, and nothing was invoked
C31_Witness ==
    /\ CombinedCancelled
    /\ cCb
    /\ \A i \in Child : chCb[i] /\ chCanceller[i] /\ cancelRuns[i] = 1
    /\ \A i \in Child : chPromise[i] \in {"finished", "died"}
    /\ kq = <<>>
    /\ klog = <<>>
    /\ chCalls = <<>>

\* history: stored function k was cancelled by id or by InvalidateCallbacks
Revoked(k) == k \in (revoked.byId \cup revoked.invalidated)
\* the tasks the executor holds and has not run
QueuedTasks == {d \in Cb : tasks[d] = "queued"}

C32_ScheduleStep ==
    \A c \in Cb :
        ScheduleCb(c) =>
           /\ stack' = stack
           /\ Cancelled(c) = {TRUE} => tasks' = tasks
           /\ Cancelled(c) = {FALSE} =>
                  Cardinality(QueuedTasks') = Cardinality(QueuedTasks) + 1

C32_CallStep ==
    \A d \in Cb :
        (/\ Len(stack') > Len(stack)
         /\ stack'[Len(stack')].cb = d
         /\ d \in InTask) =>
            /\ RunTask(d)
            /\ ~Revoked(cbs[d].fn)
            /\ owner = "alive"

\* C32: Schedule submits nothing for a callback that is Cancelled() and
\* exactly one task for one that is not, and never calls the function itself;
\* the function of a scheduled callback is called only when the task is run,
\* and only if the callback has not been cancelled by id, invalidated or
\* orphaned before; and while the task object exists and its callback is
\* neither cancelled, invalidated nor orphaned, the id the callback was made
\* with is IsActive, whether the task has been run or not.
C32_ScheduledCallbackIsLazy ==
    /\ [][C32_ScheduleStep /\ C32_CallStep]_vars
    /\ [](\A d \in InTask :
             (/\ issued[cbs[d].fn].tracked
              /\ owner = "alive"
              /\ ~Revoked(cbs[d].fn)
              /\ Cancelled(d) = {FALSE}) => IsActiveValue(issued[cbs[d].fn].id))


C33_ShrinkStep ==
    ShrinkToFit =>
       /\ \A p \in LiveObjects :
             BlocksOf(m_blocks[pptr[p].cls], p) # {} =>
                BlocksOf(m_blocks'[pptr[p].cls], p) # {}
       /\ \A k \in Class : \A i \in 1 .. Len(m_blocks'[k]) :
             m_blocks'[k][i].objs # {}
       /\ GetBlockCount' = Cardinality(LiveObjects)

\* C33: ShrinkToFit never removes a block whose buffer holds a live object,
\* removes every block that holds none, and leaves GetBlockCount() equal to
\* the number of live objects, after any sequence of Make, MakeShared,
\* pointer resets, Resize and ShrinkToFit.
C33_ShrinkKeepsLiveBlocks == [][C33_ShrinkStep]_vars


C34_TakenOnce ==
    \A i \in PoolTask :
        /\ ptask[i].runs <= 1
        /\ ptask[i].st \in {"running", "done"} =>
              ptask[i].runs = 1 /\ ptask[i].by \in PoolThread
        /\ ptask[i].st = "running" =>
              /\ wk[ptask[i].by].st = "busy"
              /\ \A j \in PoolTask \ {i} :
                    ptask[j].st = "running" => ptask[j].by # ptask[i].by
        /\ ptask[i].st = "queued" => pq > 0

C34_TaskStep ==
    \A i \in PoolTask :
        /\ ptask[i].st = "done" => ptask'[i] = ptask[i]
        /\ ptask[i].st = "running" => ptask'[i].by = ptask[i].by

\* C34: while the pool is not shut down and every task terminates, a task
\* passed to Execute is taken from the queue once, by one worker, which runs
\* it to its end, and every such task is eventually run: none is lost and
\* none is run twice, whatever the interleaving of clients, spawned optional
\* workers and linger exits.
C34_ExecutedExactlyOnce ==
    /\ []C34_TakenOnce
    /\ [][C34_TaskStep]_vars
    /\ \A i \in PoolTask : (ptask[i].st = "queued") ~> (ptask[i].st = "done")

C34_Witness ==
    /\ \A i \in PoolTask : ptask[i].st = "done"
    /\ ptask[1].by # ptask[2].by
    /\ \E w \in PoolThread : wk[w].kind = "optional" /\ wk[w].st = "exited"


\* the promise is inactive, has handed no completion task to its executor and
\* no callback installed with Then has been called
Silent == ~active /\ submitted = 0 /\ log = <<>>

C35_LateThenStep ==
    /\ ((\E f \in Fut : Then(f)) /\ ~active) => Silent'
    /\ Silent => Silent'

\* C35: a Then that installs its callback when the promise is already
\* inactive (Finished was called, or the promise was destroyed, while no
\* callback was set) finds that no completion task was ever submitted and no
\* callback called, and from then on none is: the callback is never invoked.
C35_LateThenNeverInvoked == [][C35_LateThenStep]_vars

C35_Witness ==
    /\ \E f \in Fut : m_onFinished = f /\ futures[f] = "held"
    /\ hasFuture /\ Silent
    /\ promise = "dead" /\ queue = <<>>
    /\ asyncErrors > 0


\* callback object c was made before the last InvalidateCallbacks
OldCb(c) == Exists(c) /\ cbs[c].token # NoToken /\ cbs[c].token # m_token

C36_InvalidateStep ==
    InvalidateCallbacks => \A i \in Slots : ~IsAlive(m_activeFlags'[i])

C36_OldDestroyStep ==
    \A c \in Cb :
        (DestroyCb(c) /\ owner = "alive" /\ OldCb(c)) => m_activeFlags' = m_activeFlags

C36_OrphanDestroyStep ==
    \A c \in Cb : (DestroyCb(c) /\ owner = "dead") => ~DeactivateWrites(c)

\* C36: InvalidateCallbacks leaves every slot of the registry free, whatever
\* old callbacks still exist; the destruction of a callback made before the
\* invalidation changes no bit of the registry; and the destruction of a
\* callback whose Canceller is dead does not write to the registry.
C36_InvalidationFreesSlots ==
    [][C36_InvalidateStep /\ C36_OldDestroyStep /\ C36_OrphanDestroyStep]_vars


C37_ListenerStep ==
    \A s \in Made' :
        (s \in Made /\ listenerCalls'[s] > listenerCalls[s]) =>
            \A i \in TrackedCb : (wref'[i] = s /\ wstate'[i] # "untracked") => sRuns'[i] > 0

\* C37: the listener of an OnAllCompleted is not invoked as long as one of
\* the callbacks it tracks has not been invoked: whenever it has been called
\* every tracked callback has run, whatever the other callbacks and the
\* synchronizer objects (destroyed, moved, move-assigned) have done.
C37_ListenerNeedsEveryCallback ==
    /\ [](sKind = "all" =>
             \A s \in Made : listenerCalls[s] > 0 => \A i \in TrackedOn(s) : HasFired(i))
    /\ [][sKind = "all" => C37_ListenerStep]_vars

\* a synchronizer was destroyed, one of its two callbacks was invoked as often
\* as can be, the other never: no listener call
C37_Witness ==
    /\ sKind = "all"
    /\ \E s \in Made :
          /\ Dropped(s)
          /\ listenerCalls[s] = 0
          /\ \E i, j \in TrackedOn(s) : sRuns[i] = MaxInvoke /\ sRuns[j] = 0


C38_HookStep ==
    \A i \in Child :
        (ChildRunDeliver /\ Head(kq).child = i /\ ThunkPasses(i)) =>
            /\ klog' = IF HookCalls(i)
                       THEN Append(klog, [by |-> i, val |-> "SomeEmpty"])
                       ELSE klog
            /\ chCb[i] => chCalls' = Append(chCalls, [by |-> i, val |-> Head(kq).val])

\* C38: the callback of the future of && or || is only ever called with
\* Some(Empty), never with None; the completion of a child whose promise was
\* destroyed passes None to that child's own callback and counts for the
\* combined future exactly as a Finished would.
C38_CombinedGetsSomeEmpty ==
    /\ [](\A k \in 1 .. Len(klog) : klog[k].val = "SomeEmpty")
    /\ [][C38_HookStep]_vars

\* one child's promise was destroyed, its own callback got None, and the
\* callback of the && future was called with Some(Empty)
C38_Witness ==
    /\ op = "and"
    /\ \E i \in Child :
          /\ chPromise[i] = "died"
          /\ chPromise[Other(i)] = "finished"
          /\ \E k \in 1 .. Len(chCalls) : chCalls[k] = [by |-> i, val |-> "none"]
    /\ Len(klog) = 1 /\ klog[1].val = "SomeEmpty"


C39_BusyStep ==
    /\ m_busyCount' > m_busyCount =>
          \E w \in LiveWorkers :
              /\ wk[w].st = "waiting" /\ wk'[w].st = "busy"
              /\ m_busyCount' = m_busyCount + 1
              /\ m_workerCount' = m_workerCount
    /\ \A w \in PoolThread :
          (WorkerDone(w) \/ WorkerThrow(w)) => m_busyCount' = m_busyCount - 1
    /\ m_workerCount' < m_workerCount =>
          \E w \in LiveWorkers \ Busy :
              wk'[w].st = "exited" /\ m_busyCount' = m_busyCount

\* C39: in every state of the pool busy_count <= worker_count; the workers
\* counted busy are among those counted in worker_count; busy_count goes up
\* only when a counted worker takes a task and down again when the task
\* returns or throws, and no worker takes itself off worker_count while it
\* is counted busy.
C39_BusyAtMostWorkers ==
    /\ [](/\ m_busyCount <= m_workerCount
          /\ Busy \subseteq LiveWorkers
          /\ m_workerCount = Cardinality(LiveWorkers))
    /\ [][C39_BusyStep]_vars

\* every counted worker is busy, a task has thrown and a worker has left
C39_Witness ==
    /\ m_busyCount = m_workerCount /\ m_busyCount > 0
    /\ thrown > 0
    /\ \E w \in PoolThread : wk[w].st = "exited"

=============================================================================
